---------------------------- MODULE Spec2Model ----------------------------
(***************************************************************************)
(* Model of the novelty-search engine of mysecond:                         *)
(*   - EvalCache (src/src/mysecond/eval_cache.py): the depth-aware store   *)
(*     of engine evaluations, written by several worker threads;           *)
(*   - the theory walk and the deep evaluation of search.py.               *)
(***************************************************************************)
EXTENDS Integers, Sequences, FiniteSets, TLC

(***************************************************************************)
(* Part 1.  EvalCache                                                      *)
(***************************************************************************)

\* eval_cache.py:31  maximum number of lines stored per position
MAX_MULTIPV == 20

\* Bound of the model: total number of put calls in one behaviour.
MaxPuts == 3

\* Worker threads sharing one EvalCache instance (habits.py worker pool).
Threads == {"t1", "t2"}

\* Positions used as cache keys, and the depths the callers write at.
CacheFens == {"fenA", "fenB"}
PutDepths == {16, 20, 24}

\* A list of {"uci", "white_cp"} dicts as _infos_to_moves builds it: n lines
\* of the analysis identified by tag.
MoveListOf(tag, n) == [i \in 1..n |-> [uci |-> tag, white_cp |-> i]]

\* The move lists the callers hand to put (habits.py:276, 330): the lines of
\* an analysis with multipv <= 20 (habits.py:207) that carry a principal
\* variation, so from none (a position without legal moves) to MAX_MULTIPV.
PutMoveLists ==
    {<< >>, MoveListOf("x", 1), MoveListOf("y", MAX_MULTIPV)}

\* moves[:MAX_MULTIPV]
Truncate(moves) ==
    IF Len(moves) <= MAX_MULTIPV THEN moves ELSE SubSeq(moves, 1, MAX_MULTIPV)

\* json.dumps / json.loads: the stored text is a JSON array of the items;
\* any other text fails to decode.
Dumps(moves) == [kind |-> "array", items |-> moves]
Decodes(text) == text.kind = "array"
Loads(text) == text.items

VARIABLES
    db,          \* committed rows of table eval_cache: fen -> [depth, moves_json, ts]
    wal,         \* the open SQLite write transaction: << >> or <<[conn, fen, row]>>
    write_lock,  \* holder of EvalCache._write_lock, or "none"
    pc,          \* per thread: position inside put
    arg,         \* per thread: the arguments of its current / last put
    clock,       \* time.time(), counted in executed statements
    nputs,       \* number of put calls made so far
    supplied     \* history: fen -> set of <<depth, moves>> handed to put so far

cacheVars == <<db, wal, write_lock, pc, arg, clock, nputs, supplied>>

\* The state of the theory walk (Part 3).
VARIABLES
    config,             \* SearchConfig of the run
    phase,              \* find_novelties: "config" | "walk" | "walked" | "pruned" |
                        \* "pool" | "returned"
    run,                \* number of walks started on this configuration
    stack,              \* the active _walk calls, innermost last
    pending,            \* list of _PendingNovelty
    visited,            \* set of FENs
    positions_visited,  \* the counter positions_visited[0]
    world,              \* the mocked database and engine of the run
    walkCalls,          \* history: fen -> number of _walk calls on it
    dbQueries,          \* history: fen -> number of explorer.get_data calls
    engineCalls,        \* history: fen -> number of analyse_multipv calls
    recursed,           \* history: <<fen, move>> the walk recursed into
    visitOrder,         \* history: the FENs in the order they were visited
    firstRun            \* history: result of the first walk

walkVars == <<config, phase, run, stack, pending, visited, positions_visited,
              world, walkCalls, dbQueries, engineCalls, recursed, visitOrder,
              firstRun>>

\* The state of the deep evaluation (Part 4).
VARIABLES
    futures,     \* per submitted candidate: the state and outcome of its Future
    job,         \* per pool thread: the _evaluate_candidate call it is running
    results,     \* list of NoveltyLine
    done_count,  \* the counter done_count[0]
    found,       \* the candidates as the walk left them (before_prune counts them)
    scored       \* search_cmd: the list of ScoredNovelty it reports

evalVars == <<futures, job, results, done_count, found, scored>>

\* What the deep evaluation leaves alone of the walk's state.
walkOnlyVars == <<run, stack, visited, positions_visited, world, walkCalls,
                  dbQueries, engineCalls, recursed, visitOrder, firstRun>>

\* The engine processes started so far (engine.py, Engine), in the order
\* of their start: who started each and whether it is still running.
VARIABLES
    sessions

\* The state of the habit detector (Part 5).
VARIABLES
    hpc,         \* analyze_habits: "idle" | "position" | "moves" | "finally" |
                 \* "sort" | "returned" | "raised"
    hin,         \* the arguments and the cached positions of the call
    hi,          \* index of the position under assessment in sorted_fens
    hm,          \* index of the move under assessment in qualifying_moves
    hcur,        \* best_move, best_cp and multipv_evals of the position
    heng,        \* the local eng: None or the session it holds
    hresults,    \* list of HabitInaccuracy
    hfailed,     \* whether an exception is on its way out of the loop
    hputs,       \* what was handed to eval_cache.put: (fen, moves)
    hlog         \* the calls to eval_cache.get and to the engine, in order

habitVars == <<hpc, hin, hi, hm, hcur, heng, hresults, hfailed, hputs, hlog>>

\* The state of the explorer clients and of the position cache (Part 6).
VARIABLES
    xcache,      \* explorer_cache: (fen, backend) -> payload
    xcall,       \* the get_data call in progress, or the last one
    xcalls,      \* how many get_data calls were made
    xsince,      \* tenths of a second since the player client's _last_ts
    xreal        \* tenths of a second since the player client last sent a request

fetchVars == <<xcache, xcall, xcalls, xsince, xreal>>

\* The state of the direct users of the position cache (Part 7): the calls
\* of Cache.set and Cache.get, and _store_book of fetcher.py.
VARIABLES
    kop,         \* the last call of set or get: its key, its data or result
    klatest,     \* (fen, backend) -> the data last written for the pair
    kops,        \* how many calls were made
    kpc,         \* _store_book: "idle" | "storing" | "done" | "raised"
    kbook,       \* book.items(): the (fen, pos) pairs in order
    kmerge,      \* the argument merge
    ki,          \* index of the pair the loop is at
    kbefore      \* the cache when _store_book was called

bookVars == <<kop, klatest, kops, kpc, kbook, kmerge, ki, kbefore>>

\* The state of the global job queue of the web layer (Part 8): JobQueue of
\* jobs.py, the jobs of the registry it reads and writes, and the threads
\* that are inside its methods.
VARIABLES
    qsem,        \* the value of the semaphore _sem
    qwaiting,    \* _waiting: the job ids on the wait list, in order
    qstatus,     \* job -> job.status ("none" before the job is created)
    qreg,        \* the jobs that registry._jobs holds
    qepc,        \* job -> where the call enqueue(job) is
    qwpc,        \* job -> where the thread _wrapped of the job is
    qnext,       \* job -> next_id of the _promote_next its thread is in
    qlaunched,   \* the jobs whose _launch_fn was called
    qremoved     \* the jobs that remove took off the wait list

queueVars == <<qsem, qwaiting, qstatus, qreg, qepc, qwpc, qnext, qlaunched,
               qremoved>>

\* What each part leaves alone.
notCache == <<walkVars, evalVars, habitVars, sessions, fetchVars, bookVars,
              queueVars>>
notWalk == <<cacheVars, evalVars, habitVars, sessions, fetchVars, bookVars,
             queueVars>>
notSearch == <<cacheVars, habitVars, fetchVars, bookVars, queueVars>>
notHabits == <<cacheVars, walkVars, evalVars, fetchVars, bookVars, queueVars>>
notFetch == <<cacheVars, walkVars, evalVars, habitVars, sessions, bookVars,
              queueVars>>
notBook == <<cacheVars, walkVars, evalVars, habitVars, sessions,
             xcall, xcalls, xsince, xreal, queueVars>>
notQueue == <<cacheVars, walkVars, evalVars, habitVars, sessions, fetchVars,
              bookVars>>

NoArg == [fen |-> "fenA", depth |-> 0, moves |-> << >>]

InitCache ==
    /\ db = << >>
    /\ wal = << >>
    /\ write_lock = "none"
    /\ pc = [t \in Threads |-> "idle"]
    /\ arg = [t \in Threads |-> NoArg]
    /\ clock = 0
    /\ nputs = 0
    /\ supplied = [f \in CacheFens |-> {}]

\* The row an existing row becomes under
\*   ON CONFLICT(fen) DO UPDATE SET depth = CASE WHEN excluded.depth >= depth ...
UpsertAlways(old, depth, moves_json, ts) ==
    [depth |-> depth, moves_json |-> moves_json, ts |-> ts]

UpsertMovesAlways(old, depth, moves_json, ts) ==
    [depth      |-> IF depth >= old.depth THEN depth ELSE old.depth,
     moves_json |-> moves_json,
     ts         |-> ts]

Upsert(old, depth, moves_json, ts) ==
    [depth      |-> IF depth >= old.depth THEN depth ELSE old.depth,
     moves_json |-> IF depth >= old.depth THEN moves_json ELSE old.moves_json,
     ts         |-> ts]

\* INSERT INTO eval_cache ... ON CONFLICT(fen) DO UPDATE ...: the row of fen
\* after the statement, computed on the committed table.
InsertOrUpdate(table, fen, depth, moves_json, ts) ==
    IF fen \in DOMAIN table
    THEN Upsert(table[fen], depth, moves_json, ts)
    ELSE [depth |-> depth, moves_json |-> moves_json, ts |-> ts]

\* The table with the row of fen set.
WithRow(table, fen, row) ==
    [f \in DOMAIN table \cup {fen} |-> IF f = fen THEN row ELSE table[f]]

\* put, line 88: the call.
PutCall(t, fen, depth, moves) ==
    /\ pc[t] = "idle"
    /\ nputs < MaxPuts
    /\ nputs' = nputs + 1
    /\ arg' = [arg EXCEPT ![t] = [fen |-> fen, depth |-> depth, moves |-> moves]]
    /\ supplied' = [supplied EXCEPT ![fen] = @ \cup {<<depth, moves>>}]
    /\ pc' = [pc EXCEPT ![t] = "called"]
    /\ UNCHANGED <<db, wal, write_lock, clock>>
    /\ UNCHANGED notCache

\* put, lines 94-96: an empty list returns at once.
PutCheck(t) ==
    /\ pc[t] = "called"
    /\ IF arg[t].moves = << >>
       THEN /\ pc' = [pc EXCEPT ![t] = "idle"]
            /\ arg' = [arg EXCEPT ![t] = NoArg]
       ELSE /\ pc' = [pc EXCEPT ![t] = "lock"]
            /\ arg' = arg
    /\ UNCHANGED <<db, wal, write_lock, clock, nputs, supplied>>
    /\ UNCHANGED notCache

NoLock == TRUE

\* threading.Lock: free when no thread holds it.
LockFree == write_lock = "none"

\* put, line 97: with self._write_lock
PutAcquire(t) ==
    /\ pc[t] = "lock"
    /\ LockFree
    /\ write_lock' = t
    /\ pc' = [pc EXCEPT ![t] = "execute"]
    /\ UNCHANGED <<db, wal, arg, clock, nputs, supplied>>
    /\ UNCHANGED notCache

\* put, lines 99-111: the statement runs on the thread's own connection and
\* opens a write transaction.  SQLite allows one writer: a statement that
\* finds another connection's write transaction open fails with
\* sqlite3.OperationalError once busy_timeout has passed, which put swallows
\* (lines 113-114) before leaving the with block.
PutExecute(t) ==
    /\ pc[t] = "execute"
    /\ clock' = clock + 1
    /\ IF wal = << >>
       THEN /\ wal' = <<[conn |-> t, fen |-> arg[t].fen,
                         row |-> InsertOrUpdate(db, arg[t].fen, arg[t].depth,
                                     Dumps(Truncate(arg[t].moves)), clock + 1)]>>
            /\ pc' = [pc EXCEPT ![t] = "commit"]
       ELSE /\ wal' = wal
            /\ pc' = [pc EXCEPT ![t] = "release"]
    /\ UNCHANGED <<db, write_lock, arg, nputs, supplied>>
    /\ UNCHANGED notCache

\* put, line 112: self._conn().commit()
PutCommit(t) ==
    /\ pc[t] = "commit"
    /\ wal # << >> /\ wal[1].conn = t
    /\ db' = WithRow(db, wal[1].fen, wal[1].row)
    /\ wal' = << >>
    /\ pc' = [pc EXCEPT ![t] = "release"]
    /\ UNCHANGED <<write_lock, arg, clock, nputs, supplied>>
    /\ UNCHANGED notCache

\* put: leaving the with block releases the lock, and put returns.
PutRelease(t) ==
    /\ pc[t] = "release"
    /\ write_lock' = IF write_lock = t THEN "none" ELSE write_lock
    /\ pc' = [pc EXCEPT ![t] = "idle"]
    /\ arg' = [arg EXCEPT ![t] = NoArg]
    /\ UNCHANGED <<db, wal, clock, nputs, supplied>>
    /\ UNCHANGED notCache


(***************************************************************************)
(* Part 2.  The chess rules engine, the opening database and the engine,   *)
(* as the walk sees them                                                   *)
(***************************************************************************)

\* chess.WHITE / chess.BLACK (chess.Color is a bool, WHITE = True).
WHITE == TRUE
BLACK == FALSE

\* A small game: each side has two moves, each playable once.  A board is
\* the set of moves each side has played; two move orders that play the
\* same moves reach the same position (a transposition).
WhiteMoves == {"a", "b"}
BlackMoves == {"x", "y"}
MoveOrder == <<"a", "b", "x", "y">>

StartBoard == [w |-> {}, b |-> {}]

\* board.turn
Turn(board) == Cardinality(board.w) = Cardinality(board.b)

\* board.legal_moves
LegalMoves(board) ==
    IF Turn(board) = WHITE THEN WhiteMoves \ board.w ELSE BlackMoves \ board.b

\* board.legal_moves as a list, in the generator's fixed order.
LegalSeq(board) ==
    LET Legal(m) == m \in LegalMoves(board) IN SelectSeq(MoveOrder, Legal)

\* board.copy(); board.push(move)
Push(board, move) ==
    IF Turn(board) = WHITE
    THEN [board EXCEPT !.w = @ \cup {move}]
    ELSE [board EXCEPT !.b = @ \cup {move}]

\* board.fen(): the canonical string of the position.  It names the pieces
\* (here the moves played by each side) and carries the move counters, and
\* forgets the order in which the moves were played.
Fen(board) == <<board.w, board.b>>

\* ---- models.py: ExplorerData, MoveStats (win/draw/loss summed as total) ----

\* explorer.get_data(fen) returning None.
NoData == [none |-> TRUE, total |-> 0, moves |-> << >>]

\* ExplorerData.games_for_move: the count of the first entry for uci, else 0.
RECURSIVE games_for_move(_, _)
games_for_move(moves, uci) ==
    IF moves = << >> THEN 0
    ELSE IF Head(moves).uci = uci THEN Head(moves).total
    ELSE games_for_move(Tail(moves), uci)

\* ExplorerData.top_moves(n): sorted(moves, key=-total)[:n]; Python's sort is
\* stable, so equal counts keep their order in the list.
Rank(moves, i) ==
    1 + Cardinality({j \in 1..Len(moves) :
                        \/ moves[j].total > moves[i].total
                        \/ moves[j].total = moves[i].total /\ j < i})

top_moves(moves, n) ==
    LET k == IF n < Len(moves) THEN n ELSE Len(moves)
    IN  [r \in 1..k |-> moves[CHOOSE i \in 1..Len(moves) : Rank(moves, i) = r]]

\* ---- chess.engine scores ----

\* The mate_score handed to Score.score (search.py:316, 497).
MATE_SCORE == 10000

Cp(v) == [kind |-> "cp", v |-> v]
Mate(n) == [kind |-> "mate", v |-> n]

\* PovScore.pov(color): the relative score, negated for the other side.
Negate(score) == [score EXCEPT !.v = -@]
Pov(povscore, color) ==
    IF povscore.turn = color THEN povscore.relative ELSE Negate(povscore.relative)

\* Score.score(mate_score=m): a centipawn score as is, a mate in n as
\* m - n (for the side) or -m - n (against it).
ScoreOf(score, m) ==
    IF score.kind = "cp" THEN score.v
    ELSE IF score.v > 0 THEN m - score.v ELSE -m - score.v

\* ---- the mocked collaborators (as in tests/test_search.py) ----

AllMoves == WhiteMoves \cup BlackMoves

\* chess.Move.from_uci: the strings that parse as a move.
IsUci(s) == s \in AllMoves

\* Game counts of a move in the database: absent, rare, in book.
MoveCounts == {0, 1, 3}
\* Games at a position of the book.
BookTotal == 10

\* Quick evaluations of a candidate, relative to the side to move.
QuickScores == {Cp(-40), Cp(0)}

\* A world fixes what the database and the engine answer, for the whole run:
\*   count[m]    games of move m, wherever it is asked (_explorer_with);
\*   book_plies  positions fewer than book_plies half-moves from the root are
\*               in the book, the others are not;
\*   gap         what the database answers outside the book: None ("none"),
\*               or the same moves with a total one game short of
\*               min_book_games ("thin");
\*   score[i]    the score of the engine's i-th line;
\*   pv          whether the engine's lines carry a principal variation.
Worlds ==
    [count : [AllMoves -> MoveCounts],
     book_plies : {0, 2, 5},
     gap : {"none", "thin"},
     score : [1..2 -> QuickScores],
     pv : BOOLEAN,
     player : {NoData},
     opponent : {NoData},
     fault : {"none"},
     fault_ply : {0}]

Ply(board) == Cardinality(board.w) + Cardinality(board.b)

\* The list of MoveStats of the database: every move with games, legal in
\* the position or not.
StatsList(count) ==
    LET Played(m) == count[m] > 0
        P == SelectSeq(MoveOrder, Played)
    IN  [i \in 1..Len(P) |-> [uci |-> P[i], total |-> count[P[i]]]]

\* What goes wrong at the positions fault_ply half-moves from the root, in a
\* world with a fault:
\*   "network"         every request of the masters explorer fails, so that
\*                     _fetch gives up and get_data returns None;
\*   "database"        the cache lookup of the masters explorer raises;
\*   "engine_error"    analyse_multipv raises chess.engine.EngineError;
\*   "engine_illegal"  the first line of the engine starts with a move that
\*                     is not legal in the position;
\*   "db_unparseable"  the database lists a move whose uci does not parse.
Faults ==
    {"none", "network", "database", "engine_error", "engine_illegal",
     "db_unparseable"}
FaultPlies == {0, 1, 2}

Faulted(w, board, fault) == w.fault = fault /\ Ply(board) = w.fault_ply

\* A move of the side that is not to move: never legal in the position.
IllegalMove(board) == IF Turn(board) = WHITE THEN "x" ELSE "a"

\* explorer.get_data(fen) of the mocked masters database, for a run whose
\* min_book_games is min_games.
ExplorerAnswer(w, board, min_games) ==
    IF Faulted(w, board, "network") THEN NoData
    ELSE IF Ply(board) < w.book_plies
    THEN [none |-> FALSE, total |-> BookTotal,
          moves |-> IF Faulted(w, board, "db_unparseable")
                    THEN <<[uci |-> "", total |-> BookTotal]>> \o StatsList(w.count)
                    ELSE StatsList(w.count)]
    ELSE IF w.gap = "none" THEN NoData
    ELSE [none |-> FALSE, total |-> min_games - 1, moves |-> StatsList(w.count)]

\* eng.analyse_multipv(board, multipv=n) of the mocked engine: one info per
\* legal move, at most n, scored relative to the side to move.
EngineAnswer(w, board, multipv) ==
    LET L == IF Faulted(w, board, "engine_illegal")
             THEN <<IllegalMove(board)>> \o LegalSeq(board)
             ELSE LegalSeq(board)
        k == IF multipv < Len(L) THEN multipv ELSE Len(L)
    IN  [i \in 1..k |-> [pv |-> IF w.pv THEN <<L[i]>> ELSE << >>,
                         score |-> [relative |-> w.score[i], turn |-> Turn(board)]]]

\* ---- the personal databases (as in tests/test_repertoire.py) ----

\* What player_explorer.get_data answers at the player's positions: None, or
\* the player's games there (few or many) with the moves they played.
PersonalData(total, count) ==
    [none |-> FALSE, total |-> total, moves |-> StatsList(count)]

CountsOver(moves, values) ==
    {[m \in AllMoves |-> IF m \in moves THEN f[m] ELSE 0] : f \in [moves -> values]}

PlayerDatas(side) ==
    {NoData} \cup
    {PersonalData(t, c) : t \in {2, 12},
                          c \in CountsOver(IF side = WHITE THEN WhiteMoves ELSE BlackMoves,
                                           {0, 3})}

\* What opponent_explorer.get_data answers at the opponent's positions.
OpponentDatas(side) ==
    {NoData} \cup
    {PersonalData(t, c) : t \in {2, 20},
                          c \in CountsOver(IF side = WHITE THEN BlackMoves ELSE WhiteMoves,
                                           {0, 1, 5})}

\* The worlds of a walk with repertoire filters: every move is in the
\* database, rarely (a novelty) or often (book), down to any depth.
RepertoireWorlds(side, players, opponents) ==
    [count : [AllMoves -> {1, 3}],
     book_plies : {5},
     gap : {"none"},
     score : {[i \in 1..2 |-> Cp(0)]},
     pv : {TRUE},
     player : players,
     opponent : opponents,
     fault : {"none"},
     fault_ply : {0}]

\* The worlds of a walk in which a collaborator fails or answers with a
\* move that cannot be played, at the positions of one depth.
FaultyWorlds ==
    [count : [AllMoves -> {1, 3}],
     book_plies : {5},
     gap : {"none"},
     score : {[i \in 1..2 |-> Cp(0)]},
     pv : {TRUE},
     player : {NoData},
     opponent : {NoData},
     fault : Faults,
     fault_ply : FaultPlies]

(***************************************************************************)
(* Part 3.  The theory walk (search.py, _walk)                             *)
(***************************************************************************)

\* SearchConfig (search.py:77-102), with values in the manner of _config of
\* tests/test_search.py, scaled to the small game.
DefaultConfig ==
    [side               |-> WHITE,
     max_book_plies     |-> 4,
     min_book_games     |-> 2,
     novelty_threshold  |-> 1,
     engine_candidates  |-> 2,
     opponent_responses |-> 2,
     depths             |-> <<20, 16>>,
     min_eval_cp        |-> 0,
     continuation_plies |-> 1,
     max_workers        |-> 4,
     max_positions      |-> 800,
     max_candidates     |-> 200,
     player_name        |-> "",
     opponent_name      |-> "",
     min_player_games   |-> 3,
     min_opponent_games |-> 3]

\* The configurations explored: either side, the position cap and the depth
\* cap binding or not.
Configs ==
    {[DefaultConfig EXCEPT !.side = sd, !.max_book_plies = pl, !.max_positions = mp] :
        sd \in {WHITE, BLACK}, pl \in {2, 4}, mp \in {2, 800}}

\* The configurations of a walk with repertoire filters (search.py:160-174:
\* an explorer exists for a name that is not empty).
RepertoireConfigs ==
    {[DefaultConfig EXCEPT !.side = sd, !.player_name = pn, !.opponent_name = on,
                           !.opponent_responses = n] :
        sd \in {WHITE, BLACK}, pn \in {"", "player"}, on \in {"", "opponent"},
        n \in {1, 2}}

NoResult == [pending |-> << >>, positions_visited |-> 0, order |-> << >>]

InitWalk ==
    /\ config = DefaultConfig
    /\ phase = "config"
    /\ run = 0
    /\ stack = << >>
    /\ pending = << >>
    /\ visited = {}
    /\ positions_visited = 0
    /\ world = [count |-> [m \in AllMoves |-> 0], book_plies |-> 0, gap |-> "none",
                score |-> [i \in 1..2 |-> Cp(0)], pv |-> TRUE,
                player |-> NoData, opponent |-> NoData,
                fault |-> "none", fault_ply |-> 0]
    /\ walkCalls = << >>
    /\ dbQueries = << >>
    /\ engineCalls = << >>
    /\ recursed = {}
    /\ visitOrder = << >>
    /\ firstRun = NoResult

\* A function on a growing domain: the entry of key set / counted.
WithEntry(f, key, val) ==
    [k \in DOMAIN f \cup {key} |-> IF k = key THEN val ELSE f[k]]
Counted(f, key) ==
    WithEntry(f, key, IF key \in DOMAIN f THEN f[key] + 1 ELSE 1)
CountOf(f, key) == IF key \in DOMAIN f THEN f[key] ELSE 0

\* A _walk call that has not run yet.
CallFrame(board, book_moves) ==
    [pc |-> "call", board |-> board, book_moves |-> book_moves,
     data |-> NoData, player_data |-> NoData, infos |-> << >>,
     move_list |-> << >>, i |-> 1]

Top == stack[Len(stack)]
Pop == SubSeq(stack, 1, Len(stack) - 1)
ReplaceTop(frame) == [stack EXCEPT ![Len(stack)] = frame]

\* find_novelties, lines 177-198: fresh pending, visited and counter, and the
\* call of _walk on the root.
KeptVisited == visited

FreshVisited == {}

StartWalk ==
    /\ phase \in {"config", "walked"}
    /\ run < 2
    /\ \E cfg \in (IF run = 0 THEN Configs ELSE {config}),
          w \in (IF run = 0 THEN Worlds ELSE {world}) :
          /\ config' = cfg
          /\ world' = w
    /\ run' = run + 1
    /\ phase' = "walk"
    /\ pending' = << >>
    /\ visited' = FreshVisited
    /\ positions_visited' = 0
    /\ stack' = <<CallFrame(StartBoard, << >>)>>
    /\ walkCalls' = << >>
    /\ dbQueries' = << >>
    /\ engineCalls' = << >>
    /\ recursed' = {}
    /\ visitOrder' = << >>
    /\ firstRun' = IF run = 1
                   THEN [pending |-> pending, positions_visited |-> positions_visited,
                         order |-> visitOrder]
                   ELSE firstRun
    /\ UNCHANGED notWalk

\* find_novelties, lines 160-198, with player and opponent explorers: the
\* same start, in a world with personal databases.
StartRepertoireWalk ==
    /\ phase = "config"
    /\ run = 0
    /\ \E cfg \in RepertoireConfigs :
       \E w \in RepertoireWorlds(cfg.side,
                                 IF cfg.player_name = "" THEN {NoData}
                                 ELSE PlayerDatas(cfg.side),
                                 IF cfg.opponent_name = "" THEN {NoData}
                                 ELSE OpponentDatas(cfg.side)) :
          /\ config' = cfg
          /\ world' = w
    /\ run' = 1
    /\ phase' = "walk"
    /\ pending' = << >>
    /\ visited' = FreshVisited
    /\ positions_visited' = 0
    /\ stack' = <<CallFrame(StartBoard, << >>)>>
    /\ UNCHANGED <<walkCalls, dbQueries, engineCalls, recursed, visitOrder, firstRun>>
    /\ UNCHANGED notWalk

\* find_novelties, lines 177-198, with collaborators that can fail.
StartFaultyWalk ==
    /\ phase = "config"
    /\ run = 0
    /\ \E side \in {WHITE, BLACK}, w \in FaultyWorlds :
          /\ config' = [DefaultConfig EXCEPT !.side = side]
          /\ world' = w
    /\ run' = 1
    /\ phase' = "walk"
    /\ pending' = << >>
    /\ visited' = FreshVisited
    /\ positions_visited' = 0
    /\ stack' = <<CallFrame(StartBoard, << >>)>>
    /\ UNCHANGED <<walkCalls, dbQueries, engineCalls, recursed, visitOrder, firstRun>>
    /\ UNCHANGED notWalk

\* _walk, lines 263-271: the three guards.
NeverVisited(fen) == FALSE

AlreadyVisited(fen) == fen \in visited

NoCap == FALSE

CapReached == positions_visited >= config.max_positions

TooDeep(book_moves) == Len(book_moves) >= config.max_book_plies

\* _walk, line 279.
OutOfBookWhenNone(data) == data.none

OutOfBook(data) == data.none \/ data.total < config.min_book_games

\* player_explorer.get_data(fen) / opponent_explorer.get_data(fen); None when
\* no player (opponent) filter is configured (lines 299-303, 455).
PlayerAnswer(board) == IF config.player_name = "" THEN NoData ELSE world.player
OpponentAnswer(board) == IF config.opponent_name = "" THEN NoData ELSE world.opponent

\* _player_plays_move, lines 420-429.
AnyMovePlays(move, player_data, min_games) == TRUE

player_plays_move(move, player_data, min_games) ==
    IF player_data.none THEN TRUE
    ELSE IF player_data.total < min_games THEN TRUE
    ELSE games_for_move(player_data.moves, move) >= min_games

\* _opponent_moves_with_source, lines 446-463: the opponent's own top moves
\* when they have enough games here, else the database's.
MastersMoves(board, masters_data) ==
    top_moves(masters_data.moves, config.opponent_responses)

opponent_moves_with_source(board, masters_data) ==
    LET opp_data == OpponentAnswer(board)
        own == top_moves(opp_data.moves, config.opponent_responses)
    IN  IF /\ config.opponent_name # ""
           /\ ~opp_data.none
           /\ opp_data.total >= config.min_opponent_games
           /\ own # << >>
        THEN own
        ELSE top_moves(masters_data.moves, config.opponent_responses)

\* _walk, lines 263-297 and 380-383: the guards, the database query and, at
\* an in-book position, the engine query (our turn) or the choice of the
\* moves to follow (opponent's turn).
WalkCall ==
    /\ phase = "walk"
    /\ stack # << >>
    /\ Top.pc = "call"
    /\ LET board == Top.board
           fen == Fen(board)
           data == ExplorerAnswer(world, board, config.min_book_games)
           player_data == PlayerAnswer(board)
           infos == EngineAnswer(world, board, config.engine_candidates)
           move_list == opponent_moves_with_source(board, data)
       IN
       /\ walkCalls' = Counted(walkCalls, fen)
       /\ IF AlreadyVisited(fen) \/ CapReached \/ TooDeep(Top.book_moves)
          THEN /\ stack' = Pop
               /\ UNCHANGED <<visited, positions_visited, dbQueries, engineCalls,
                              visitOrder, phase>>
          ELSE /\ visited' = visited \cup {fen}
               /\ visitOrder' = Append(visitOrder, fen)
               /\ positions_visited' = positions_visited + 1
               /\ dbQueries' = Counted(dbQueries, fen)
               /\ IF Faulted(world, board, "database")
                  THEN \* line 278: the exception of Cache.get leaves _walk
                       /\ phase' = "raised"
                       /\ UNCHANGED <<stack, engineCalls>>
                  ELSE IF OutOfBook(data)
                  THEN /\ stack' = Pop
                       /\ UNCHANGED <<engineCalls, phase>>
                  ELSE IF Turn(board) = config.side
                  THEN /\ engineCalls' = Counted(engineCalls, fen)
                       /\ IF Faulted(world, board, "engine_error")
                          THEN \* line 292: no handler around analyse_multipv
                               /\ phase' = "raised"
                               /\ UNCHANGED stack
                          ELSE /\ stack' = ReplaceTop([Top EXCEPT !.pc = "our",
                                               !.data = data, !.infos = infos,
                                               !.player_data = player_data])
                               /\ UNCHANGED phase
                  ELSE /\ UNCHANGED engineCalls
                       /\ IF \E k \in 1..Len(move_list) : ~IsUci(move_list[k].uci)
                          THEN \* lines 384-388: Move.from_uci raises ValueError
                               /\ phase' = "raised"
                               /\ UNCHANGED stack
                          ELSE /\ stack' = ReplaceTop([Top EXCEPT !.pc = "opp",
                                               !.data = data,
                                               !.move_list = move_list])
                               /\ UNCHANGED phase
    /\ UNCHANGED <<config, run, pending, world, recursed, firstRun>>
    /\ UNCHANGED notWalk

\* _walk, line 316: quick_cp = float(pov.score(mate_score=10_000) or 0)
QuickCp(info) == ScoreOf(Pov(info.score, config.side), MATE_SCORE)

\* _walk, line 319.
IsNoveltyStrict(post_games) == post_games < config.novelty_threshold

IsNovelty(post_games) == post_games <= config.novelty_threshold

\* _walk, line 322.
NoFloor(quick_cp) == TRUE

MeetsFloor(quick_cp) == quick_cp >= config.min_eval_cp

\* _walk, lines 309-376: one iteration of the loop over the engine's infos.
WalkOurMove ==
    /\ phase = "walk"
    /\ stack # << >>
    /\ Top.pc = "our"
    /\ Top.i <= Len(Top.infos)
    /\ LET info == Top.infos[Top.i]
           next == [Top EXCEPT !.i = @ + 1]
       IN  IF info.pv = << >>
           THEN /\ stack' = ReplaceTop(next)
                /\ UNCHANGED <<pending, recursed, phase>>
           ELSE LET move == info.pv[1]
                    quick_cp == QuickCp(info)
                    post_games == games_for_move(Top.data.moves, move)
                IN  \/ \* line 313: board.san(move) raises for a move that is
                       \* not legal, when no piece stands on its from-square
                       /\ move \notin LegalMoves(Top.board)
                       /\ phase' = "raised"
                       /\ UNCHANGED <<stack, pending, recursed>>
                    \/ \* otherwise the move is handled like any other
                       /\ UNCHANGED phase
                       /\ IF IsNovelty(post_games)
                           THEN /\ stack' = ReplaceTop(next)
                                /\ pending' =
                                     IF MeetsFloor(quick_cp)
                                     THEN Append(pending,
                                            [board |-> Top.board,
                                             book_moves |-> Top.book_moves,
                                             move |-> move,
                                             pre_novelty_games |-> Top.data.total,
                                             post_novelty_games |-> post_games,
                                             quick_eval_cp |-> quick_cp])
                                     ELSE pending
                                /\ UNCHANGED recursed
                           ELSE IF ~player_plays_move(move, Top.player_data,
                                                      config.min_player_games)
                           THEN /\ stack' = ReplaceTop(next)
                                /\ UNCHANGED <<pending, recursed>>
                           ELSE /\ stack' = Append(ReplaceTop(next),
                                               CallFrame(Push(Top.board, move),
                                                         Append(Top.book_moves, move)))
                                /\ recursed' = recursed \cup {<<Fen(Top.board), move>>}
                                /\ UNCHANGED pending
    /\ UNCHANGED <<config, run, visited, positions_visited, world,
                   walkCalls, dbQueries, engineCalls, visitOrder, firstRun>>
    /\ UNCHANGED notWalk

\* _walk, lines 393-412: one iteration of the loop over the moves to follow.
WalkOppMove ==
    /\ phase = "walk"
    /\ stack # << >>
    /\ Top.pc = "opp"
    /\ Top.i <= Len(Top.move_list)
    /\ LET move == Top.move_list[Top.i].uci
           next == [Top EXCEPT !.i = @ + 1]
       IN  IF move \notin LegalMoves(Top.board)
           THEN /\ stack' = ReplaceTop(next)
                /\ UNCHANGED recursed
           ELSE /\ stack' = Append(ReplaceTop(next),
                               CallFrame(Push(Top.board, move),
                                         Append(Top.book_moves, move)))
                /\ recursed' = recursed \cup {<<Fen(Top.board), move>>}
    /\ UNCHANGED <<config, phase, run, pending, visited, positions_visited,
                   world, walkCalls, dbQueries, engineCalls, visitOrder, firstRun>>
    /\ UNCHANGED notWalk

\* _walk: the loop is over, the call returns.
WalkReturn ==
    /\ phase = "walk"
    /\ stack # << >>
    /\ \/ Top.pc = "our" /\ Top.i > Len(Top.infos)
       \/ Top.pc = "opp" /\ Top.i > Len(Top.move_list)
    /\ stack' = Pop
    /\ UNCHANGED <<config, phase, run, pending, visited, positions_visited,
                   world, walkCalls, dbQueries, engineCalls, recursed, visitOrder,
              firstRun>>
    /\ UNCHANGED notWalk

\* find_novelties, line 198: the root call has returned.
WalkDone ==
    /\ phase = "walk"
    /\ stack = << >>
    /\ phase' = "walked"
    /\ UNCHANGED <<config, run, stack, pending, visited, positions_visited,
                   world, walkCalls, dbQueries, engineCalls, recursed, visitOrder,
              firstRun>>
    /\ UNCHANGED notWalk

NextWalk ==
    \/ StartWalk
    \/ WalkCall
    \/ WalkOurMove
    \/ WalkOppMove
    \/ WalkReturn
    \/ WalkDone

NextRepertoireWalk ==
    \/ StartRepertoireWalk
    \/ WalkCall
    \/ WalkOurMove
    \/ WalkOppMove
    \/ WalkReturn
    \/ WalkDone

NextFaultyWalk ==
    \/ StartFaultyWalk
    \/ WalkCall
    \/ WalkOurMove
    \/ WalkOppMove
    \/ WalkReturn
    \/ WalkDone

(***************************************************************************)
(* Part 4.  Pruning and deep evaluation (search.py: find_novelties phases  *)
(* 1b and 2, _evaluate_candidate)                                          *)
(***************************************************************************)

\* Optional values: None is the empty sequence, a value v is <<v>>.
None == << >>
Some(v) == <<v>>

\* The value cp_pov and the mean give to a mate (models.py:26, search.py:515).
MATE_CP == 10000

\* Score.mate(): None for a centipawn score, the number of moves of a mate.
MateOf(score) == IF score.kind = "mate" THEN Some(score.v) ELSE None

\* models.py, EngineEval.
EngineEval(depth, cp_white, mate_white) ==
    [depth |-> depth, cp_white |-> cp_white, mate_white |-> mate_white]

\* EngineEval.cp_pov, models.py:23-29.
cp_pov(ev, side) ==
    IF ev.cp_white = None
    THEN LET mate == IF ev.mate_white = None THEN 0 ELSE ev.mate_white[1]
             white_val == IF mate > 0 THEN MATE_CP ELSE -MATE_CP
         IN  IF side = WHITE THEN white_val ELSE -white_val
    ELSE IF side = WHITE THEN ev.cp_white[1] ELSE -ev.cp_white[1]

\* _any_mate_for, search.py:547-551: decided by the first evaluation, in
\* the order of the dict, that carries a mate.
RECURSIVE any_mate_for(_, _)
any_mate_for(evals, side) ==
    IF evals = << >> THEN FALSE
    ELSE IF Head(evals).mate_white # None
         THEN (Head(evals).mate_white[1] > 0) = (side = WHITE)
         ELSE any_mate_for(Tail(evals), side)

RECURSIVE SumSeq(_)
SumSeq(seq) == IF seq = << >> THEN 0 ELSE Head(seq) + SumSeq(Tail(seq))

\* sorted(seq, key=lambda p: -p.quick_eval_cp): best quick evaluation first;
\* Python's sort is stable, so equal evaluations keep their order.
Unsorted(seq) == seq

SortedByQuick(seq) ==
    LET rank(i) == 1 + Cardinality({j \in 1..Len(seq) :
                          \/ seq[j].quick_eval_cp > seq[i].quick_eval_cp
                          \/ seq[j].quick_eval_cp = seq[i].quick_eval_cp /\ j < i})
    IN  [r \in 1..Len(seq) |-> seq[CHOOSE i \in 1..Len(seq) : rank(i) = r]]

Prefix(seq, n) == SubSeq(seq, 1, IF n < Len(seq) THEN n ELSE Len(seq))

\* sorted(config.depths): ascending.
SortedDepths ==
    LET seq == config.depths
        rank(i) == 1 + Cardinality({j \in 1..Len(seq) :
                          \/ seq[j] < seq[i]
                          \/ seq[j] = seq[i] /\ j < i})
    IN  [r \in 1..Len(seq) |-> seq[CHOOSE i \in 1..Len(seq) : rank(i) = r]]

\* ---- the engine of a worker ----

\* What eng.analyse_single gives at one depth: a score relative to the side
\* to move, or an error of the engine process.
EngineError == [kind |-> "error", v |-> 0]
DeepScores == {Cp(-50), Cp(50), Mate(3), Mate(-3)}
DeepOutcomes == DeepScores \cup {EngineError}

\* ---- the candidates the walk hands over ----

\* A position where it is side's turn, and the side's moves.
OurBoard(side) == IF side = WHITE THEN StartBoard ELSE Push(StartBoard, "a")
OurPath(side) == IF side = WHITE THEN << >> ELSE <<"a">>
OurMoves(side) == IF side = WHITE THEN <<"a", "b">> ELSE <<"x", "y">>

Candidate(side, move, quick_cp) ==
    [board |-> OurBoard(side), book_moves |-> OurPath(side), move |-> move,
     pre_novelty_games |-> BookTotal, post_novelty_games |-> 0,
     quick_eval_cp |-> quick_cp]

\* A candidate found two plies deeper, after each side's first move.
DeeperCandidate(side, quick_cp) ==
    LET reply == IF side = WHITE THEN "x" ELSE "b"
        board == Push(Push(OurBoard(side), OurMoves(side)[1]), reply)
    IN  [board |-> board,
         book_moves |-> OurPath(side) \o <<OurMoves(side)[1], reply>>,
         move |-> OurMoves(side)[2],
         pre_novelty_games |-> BookTotal, post_novelty_games |-> 0,
         quick_eval_cp |-> quick_cp]

\* Pending lists a walk can produce: quick evaluations at or above the
\* floor, in the order of discovery.
PendingLists(cfg) ==
    LET c1 == Candidate(cfg.side, OurMoves(cfg.side)[1], cfg.min_eval_cp)
        c2 == Candidate(cfg.side, OurMoves(cfg.side)[2], cfg.min_eval_cp + 30)
        c3 == DeeperCandidate(cfg.side, cfg.min_eval_cp + 30)
        c4 == DeeperCandidate(cfg.side, cfg.min_eval_cp + 60)
    IN  {<< >>, <<c1>>, <<c1, c2>>, <<c1, c2, c3>>, <<c2, c1, c4>>}

EvalConfigs ==
    {[DefaultConfig EXCEPT !.side = sd, !.max_workers = mw, !.max_candidates = mc] :
        sd \in {WHITE, BLACK}, mw \in {1, 4}, mc \in {1, 2}}

NoJob == [busy |-> FALSE, fut |-> 0, eng |-> 0, k |-> 0, evals |-> << >>]

\* ---- engine.py, Engine: the sessions ----

\* Who holds a session: the walk, the evaluation of candidate n, or the habit
\* detector.
Owner(kind, n) == [kind |-> kind, n |-> n]

\* Engine.__init__ (engine.py:48-52) succeeding: a new engine process.
Opened(owner) == Append(sessions, [owner |-> owner, open |-> TRUE])

\* Engine.__exit__ / close (engine.py:97-104): the process is told to quit.
Closed(id) == [sessions EXCEPT ![id].open = FALSE]

InitEval ==
    /\ futures = << >>
    /\ job = << >>
    /\ results = << >>
    /\ done_count = 0
    /\ found = << >>
    /\ scored = << >>

\* find_novelties, lines 177-185: the configuration is read and the walk's
\* engine is started; Engine() may raise, and then nothing was started.
WalkEnter ==
    /\ phase = "config"
    /\ hpc = "idle"
    /\ \E cfg \in EvalConfigs : config' = cfg
    /\ \E started \in BOOLEAN :
          IF started
          THEN /\ sessions' = Opened(Owner("walk", 0))
               /\ phase' = "walk"
          ELSE /\ phase' = "raised"
               /\ UNCHANGED sessions
    /\ UNCHANGED <<pending, walkOnlyVars, evalVars, notSearch>>

\* find_novelties, lines 186-198, seen from phase 1b: the walk is over and
\* has left its candidates in pending; leaving the with block closes the
\* walk's engine.
WalkYields ==
    /\ phase = "walk"
    /\ stack = << >>
    /\ sessions # << >>
    /\ \E pend \in PendingLists(config) : pending' = pend
    /\ sessions' = Closed(Len(sessions))
    /\ phase' = "walked"
    /\ UNCHANGED <<config, walkOnlyVars, evalVars, notSearch>>

\* find_novelties, lines 181-198: _walk raises (an engine or database call
\* failed); the with block closes the walk's engine and the exception
\* leaves find_novelties.
WalkRaises ==
    /\ phase = "walk"
    /\ stack = << >>
    /\ sessions # << >>
    /\ sessions' = Closed(Len(sessions))
    /\ phase' = "raised"
    /\ UNCHANGED <<config, pending, walkOnlyVars, evalVars, notSearch>>

\* find_novelties, lines 200-201.
ReturnEmpty ==
    /\ phase = "walked"
    /\ pending = << >>
    /\ phase' = "returned"
    /\ UNCHANGED <<config, pending, walkOnlyVars, evalVars, notSearch, sessions>>

\* find_novelties, lines 204-206: sort by quick evaluation, best first, and
\* keep max_candidates.
Prune ==
    /\ phase = "walked"
    /\ pending # << >>
    /\ found' = pending
    /\ pending' = Prefix(SortedByQuick(pending), config.max_candidates)
    /\ phase' = "pruned"
    /\ UNCHANGED <<config, futures, job, results, done_count, scored, walkOnlyVars,
                   notSearch, sessions>>

\* find_novelties, lines 220-229: the pool and one future per candidate.
Submit ==
    /\ phase = "pruned"
    /\ LET workers == IF config.max_workers < Len(pending)
                      THEN config.max_workers ELSE Len(pending)
       IN  job' = [w \in 1..workers |-> NoJob]
    /\ futures' = [i \in 1..Len(pending) |->
                      [state |-> "pending", result |-> None, collected |-> FALSE]]
    /\ phase' = "pool"
    /\ UNCHANGED <<config, pending, results, done_count, found, scored,
                   walkOnlyVars, notSearch,
                   sessions>>

Finished(fut, result) == [fut EXCEPT !.state = "finished", !.result = result]
Raised(fut) == [fut EXCEPT !.state = "raised"]

\* The session a new evaluation works with: its own, just started.
SharedSession == Len(sessions)

OwnSession == Len(sessions) + 1

\* A pool thread takes the oldest future not yet started and enters
\* _evaluate_candidate (lines 471-489); opening the engine may fail.
WorkerStart(w) ==
    /\ phase = "pool"
    /\ ~job[w].busy
    /\ \E i \in 1..Len(futures) :
          /\ futures[i].state = "pending"
          /\ \A j \in 1..(i - 1) : futures[j].state # "pending"
          /\ \E opened \in BOOLEAN :
                IF opened
                THEN /\ futures' = [futures EXCEPT ![i].state = "running"]
                     /\ sessions' = Opened(Owner("eval", i))
                     /\ job' = [job EXCEPT ![w] =
                                   [busy |-> TRUE, fut |-> i, eng |-> OwnSession,
                                    k |-> 1, evals |-> << >>]]
                ELSE /\ futures' = [futures EXCEPT ![i] = Raised(@)]
                     /\ UNCHANGED <<job, sessions>>
    /\ UNCHANGED <<config, phase, pending, results, done_count, found, scored,
                   walkOnlyVars, notSearch>>

\* _evaluate_candidate, lines 492-500: the analysis at the next depth.  The
\* score is relative to the side to move after the candidate move.
WorkerAnalyse(w) ==
    /\ phase = "pool"
    /\ job[w].busy
    /\ job[w].k <= Len(SortedDepths)
    /\ \E out \in DeepOutcomes :
          IF out = EngineError
          THEN /\ futures' = [futures EXCEPT ![job[w].fut] = Raised(@)]
               /\ job' = [job EXCEPT ![w] = NoJob]
               /\ sessions' = Closed(job[w].eng)
          ELSE LET p == pending[job[w].fut]
                   post_board == Push(p.board, p.move)
                   score == [relative |-> out, turn |-> Turn(post_board)]
                   ev == EngineEval(SortedDepths[job[w].k],
                                    Some(ScoreOf(Pov(score, WHITE), MATE_SCORE)),
                                    MateOf(Pov(score, WHITE)))
               IN  /\ job' = [job EXCEPT ![w].k = @ + 1,
                                         ![w].evals = Append(@, ev)]
                   /\ UNCHANGED <<futures, sessions>>
    /\ UNCHANGED <<config, phase, pending, results, done_count, found, scored,
                   walkOnlyVars, notSearch>>

\* _evaluate_candidate, lines 507-511.
CpValues(evals, side) ==
    LET HasCp(ev) == ev.cp_white # None
        kept == SelectSeq(evals, HasCp)
    IN  [i \in 1..Len(kept) |-> cp_pov(kept[i], side)]

\* _evaluate_candidate, lines 512-520: mean_cp < min_eval_cp, the mean
\* being sum / len or the mate placeholder.
BelowFloor(evals) ==
    LET cp_values == CpValues(evals, config.side)
    IN  IF cp_values # << >>
        THEN SumSeq(cp_values) < config.min_eval_cp * Len(cp_values)
        ELSE (IF any_mate_for(evals, config.side) THEN MATE_CP ELSE -MATE_CP)
                 < config.min_eval_cp

\* _evaluate_candidate, lines 531-539.
NoveltyLine(p, evals, continuations) ==
    [book_moves |-> p.book_moves,
     novelty_move |-> p.move,
     novelty_ply |-> Len(p.book_moves),
     evals |-> evals,
     pre_novelty_games |-> p.pre_novelty_games,
     post_novelty_games |-> p.post_novelty_games,
     continuations |-> continuations]

\* _evaluate_candidate, lines 507-539: the floor, then the continuation.
WorkerDecide(w) ==
    /\ phase = "pool"
    /\ job[w].busy
    /\ job[w].k > Len(SortedDepths)
    /\ LET p == pending[job[w].fut]
           post_board == Push(p.board, p.move)
       IN  IF BelowFloor(job[w].evals)
           THEN futures' = [futures EXCEPT ![job[w].fut] = Finished(@, None)]
           ELSE \E cont \in {"error", "nopv", "pv"} :
                   futures' = [futures EXCEPT ![job[w].fut] =
                      IF cont = "error" THEN Raised(@)
                      ELSE Finished(@, Some(NoveltyLine(p, job[w].evals,
                              IF cont = "pv"
                              THEN Prefix(LegalSeq(post_board), config.continuation_plies)
                              ELSE << >>)))]
    /\ job' = [job EXCEPT ![w] = NoJob]
    /\ sessions' = Closed(job[w].eng)
    /\ UNCHANGED <<config, phase, pending, results, done_count, found, scored,
                   walkOnlyVars, notSearch>>

\* except Exception (lines 237-238): the warning is printed and the loop
\* over the completed futures goes on.
Propagated == "raised"

Caught == "pool"

\* find_novelties, lines 230-238: as_completed hands over a completed
\* future; a result is counted and, unless None, appended; an exception is
\* reported and dropped.
Collect ==
    /\ phase = "pool"
    /\ \E i \in 1..Len(futures) :
          /\ futures[i].state \in {"finished", "raised"}
          /\ ~futures[i].collected
          /\ futures' = [futures EXCEPT ![i].collected = TRUE]
          /\ IF futures[i].state = "finished"
             THEN /\ done_count' = done_count + 1
                  /\ results' = IF futures[i].result # None
                                THEN Append(results, futures[i].result[1])
                                ELSE results
                  /\ UNCHANGED phase
             ELSE /\ phase' = Caught
                  /\ UNCHANGED <<results, done_count>>
    /\ UNCHANGED <<config, pending, job, found, scored,
                   walkOnlyVars, notSearch, sessions>>

\* find_novelties, line 240.
ReturnResults ==
    /\ phase = "pool"
    /\ \A i \in 1..Len(futures) : futures[i].collected
    /\ phase' = "returned"
    /\ UNCHANGED <<config, pending, walkOnlyVars, evalVars, notSearch, sessions>>

\* ---- score.py and the ranking of search_cmd ----

\* math.exp(-(ply - 14)^2 / (2 * 8^2)) * 30 (score.py:35-38 and 57-59), in
\* thousandths of a centipawn, for the plies of the small game.
DepthBonus(ply) == <<6488, 8012, 9740, 11657, 13735>>[ply + 1]

\* _has_mate_for, score.py:75-79: the first depth with a mate decides.
RECURSIVE has_mate_for(_, _)
has_mate_for(evals, side) ==
    IF evals = << >> THEN FALSE
    ELSE IF Head(evals).mate_white # None
    THEN (Head(evals).mate_white[1] > 0) = (side = WHITE)
    ELSE has_mate_for(Tail(evals), side)

\* 8 * statistics.stdev(cp_values) (score.py:51 and 63), in thousandths of a
\* centipawn: 0 for one value, 8 * |a - b| / sqrt(2) for two.
StabilityPenalty(cp_values) ==
    IF Len(cp_values) < 2 THEN 0
    ELSE LET d == cp_values[1] - cp_values[2]
         IN  5657 * (IF d < 0 THEN -d ELSE d)

\* score_novelty, score.py:41-72, in thousandths of a centipawn.
score_novelty(nov, side) ==
    LET cp_values == CpValues(nov.evals, side)
        eval_cp == IF cp_values # << >>
                   THEN (1000 * SumSeq(cp_values)) \div Len(cp_values)
                   ELSE IF has_mate_for(nov.evals, side)
                   THEN 1000 * MATE_CP ELSE -1000 * MATE_CP
    IN  [novelty |-> nov,
         eval_cp |-> eval_cp,
         score |-> eval_cp - StabilityPenalty(cp_values) + DepthBonus(nov.novelty_ply)]

\* sorted(..., key=lambda s: -s.score), cli.py:354-357: best score first;
\* the sort is stable.
Unranked(seq) == seq

SortedByNoveltyScore(seq) ==
    LET rank(i) == 1 + Cardinality({j \in 1..Len(seq) :
                          \/ seq[j].score > seq[i].score
                          \/ seq[j].score = seq[i].score /\ j < i})
    IN  [r \in 1..Len(seq) |-> seq[CHOOSE i \in 1..Len(seq) : rank(i) = r]]

\* search_cmd, cli.py:335-357: the novelties returned are scored and
\* ranked; with none the command ends at once.
Report ==
    /\ phase = "returned"
    /\ scored' = SortedByNoveltyScore([i \in 1..Len(results) |->
                                          score_novelty(results[i], config.side)])
    /\ phase' = "reported"
    /\ UNCHANGED <<config, pending, futures, job, results, done_count, found,
                   walkOnlyVars, notSearch, sessions>>

NextEval ==
    \/ WalkEnter
    \/ WalkYields
    \/ WalkRaises
    \/ ReturnEmpty
    \/ Prune
    \/ Submit
    \/ \E w \in DOMAIN job : WorkerStart(w)
    \/ \E w \in DOMAIN job : WorkerAnalyse(w)
    \/ \E w \in DOMAIN job : WorkerDecide(w)
    \/ Collect
    \/ ReturnResults
    \/ Report

(***************************************************************************)
(* Part 5.  Habit detection (habits.py: analyze_habits)                    *)
(***************************************************************************)

\* score(mate_score=10_000), habits.py:262 and 464.
HABIT_MATE_SCORE == 10000

\* The default min_eval_gap, habits.py:69.
MIN_EVAL_GAP == 25

\* One entry of payload["moves"] that qualified, and one entry of
\* sorted_fens: the position (valid says whether its FEN parses), how often
\* the player reached it and the moves played often enough.
HabitMove(uci, games) == [uci |-> uci, games |-> games]
HabitPosition(valid, board, total, qualifying) ==
    [valid |-> valid, board |-> board, total |-> total, qualifying |-> qualifying]

\* One row of cache.scan_backend(backend) (cache.py:66-73): the key, which
\* is a FEN or a bookkeeping key that starts with "_" (meta), and the
\* payload: the games at the position and, per move, the games with it.
CachedRow(meta, valid, board, total, moves) ==
    [meta |-> meta, valid |-> valid, board |-> board, total |-> total,
     moves |-> moves]

WhiteRow ==
    CachedRow(FALSE, TRUE, StartBoard, 9, <<HabitMove("a", 6), HabitMove("b", 3)>>)
BlackRow ==
    CachedRow(FALSE, TRUE, Push(StartBoard, "a"), 7,
              <<HabitMove("y", 4), HabitMove("", 3), HabitMove("a", 3)>>)
RareRow ==
    CachedRow(FALSE, TRUE, Push(StartBoard, "b"), 4, <<HabitMove("x", 4)>>)
CorruptRow ==
    CachedRow(FALSE, FALSE, StartBoard, 5, <<HabitMove("a", 5)>>)
MetaRow ==
    CachedRow(TRUE, FALSE, StartBoard, 20, <<HabitMove("a", 20)>>)

DeepRow ==
    CachedRow(FALSE, TRUE, Push(Push(Push(StartBoard, "a"), "x"), "b"), 3,
              <<HabitMove("y", 3)>>)
LateRow ==
    CachedRow(FALSE, TRUE, Push(Push(StartBoard, "b"), "y"), 6, <<HabitMove("a", 6)>>)

\* A scan of six positions, which is more than five times max_positions 1.
LongScan == <<DeepRow, CorruptRow, WhiteRow, RareRow, BlackRow, LateRow>>

\* What the scan can return, in the order of the table.
ScannedLists ==
    {<< >>, <<WhiteRow>>, <<BlackRow>>, <<BlackRow, WhiteRow>>,
     <<CorruptRow, WhiteRow>>, <<MetaRow, WhiteRow>>, <<RareRow, BlackRow>>,
     LongScan}

\* Lines 116 and 153-164: the rows that are positions reached min_games
\* times, each with the moves played min_games times, if there is one.
all_moves(row, min_games) == row.moves

qualifying_moves(row, min_games) ==
    SelectSeq(row.moves, LAMBDA m : m.games >= min_games)

by_fen(all_positions, min_games) ==
    LET Counts(row) == /\ ~row.meta
                       /\ ~(row.total < min_games)
                       /\ qualifying_moves(row, min_games) # << >>
        rows == SelectSeq(all_positions, Counts)
    IN  [i \in 1..Len(rows) |->
            HabitPosition(rows[i].valid, rows[i].board, rows[i].total,
                          qualifying_moves(rows[i], min_games))]

\* sorted(by_fen.items(), key=total, reverse=True): a stable sort, most
\* frequent position first (lines 175-179).
InScanOrder(seq) == seq

SortedByTotal(seq) ==
    LET rank(i) == 1 + Cardinality({j \in 1..Len(seq) :
                          \/ seq[j].total > seq[i].total
                          \/ seq[j].total = seq[i].total /\ j < i})
    IN  [r \in 1..Len(seq) |-> seq[CHOOSE i \in 1..Len(seq) : rank(i) = r]]

\* sorted_fens, lines 174-183: capped at max_positions * 5 positions.
sorted_fens(all_positions, min_games, max_positions) ==
    LET sorted == SortedByTotal(by_fen(all_positions, min_games))
        eval_cap == max_positions * 5
    IN  IF Len(sorted) > eval_cap THEN SubSeq(sorted, 1, eval_cap) ELSE sorted

\* The color argument: a string, which need not name a side.
HabitColors == {"white", "black", "red"}

\* player_color = chess.WHITE if color == "white" else chess.BLACK (line 108).
player_color_of(color) == IF color = "white" THEN WHITE ELSE BLACK

\* The calls: every scan with every setting (fetched says that the first
\* scan was empty and the games were downloaded, lines 121-144); the long scan with the
\* settings that let all of its positions qualify, and with an evaluation
\* cache only where the cap cuts it short.
HabitInputs ==
    {input \in [color : HabitColors,
                min_games : {3, 5},
                min_eval_gap : {MIN_EVAL_GAP},
                max_positions : {1, 50},
                engine_threads : {None, Some(1)},
                eval_cache : BOOLEAN,
                fetched : BOOLEAN,
                all_positions : ScannedLists] :
        /\ input.all_positions = << >> => input.fetched
        /\ input.fetched => input.all_positions \in {<< >>, <<WhiteRow>>}
        /\ input.all_positions = LongScan =>
              /\ input.color \in {"white", "black"}
              /\ input.min_games = 3
              /\ input.engine_threads # None
              /\ input.max_positions = 50 => ~input.eval_cache}

\* What the engine can answer.  A PovScore is relative to the side to move.
PovScore(board, relative) == [turn |-> Turn(board), relative |-> relative]
Info(pv, score) == [pv |-> pv, score |-> score]

BestScores == {Cp(30), Mate(2)}
OtherScores == {Cp(10), Cp(-10)}
OtherMove(board) == IF Turn(board) = WHITE THEN "x" ELSE "a"

\* analyse_multipv (engine.py:58-70): no line, a line without pv, the best
\* line alone (the window did not reach the player's move), or two lines.
MultiAnswers(board) ==
    {<< >>, <<Info(<< >>, PovScore(board, Cp(0)))>>}
    \cup {<<Info(<<m>>, PovScore(board, s))>> :
             m \in LegalMoves(board) \cup {OtherMove(board)}, s \in BestScores}
    \cup {<<Info(<<m>>, PovScore(board, s)), Info(<<n>>, PovScore(board, t))>> :
             m \in LegalMoves(board), n \in LegalMoves(board),
             s \in BestScores, t \in OtherScores}

\* analyse_single (engine.py:72-82) of the position after the player's move.
SingleAnswers(board) ==
    {Info(<< >>, PovScore(board, s)) : s \in {Cp(-10), Cp(10), Mate(1)}}

\* _infos_to_moves, lines 468-481: the cache's White-relative entries.
RECURSIVE infos_to_moves(_)
infos_to_moves(infos) ==
    IF infos = << >> THEN << >>
    ELSE LET info == Head(infos)
             rest == infos_to_moves(Tail(infos))
         IN  IF info.pv = << >> THEN rest
             ELSE <<[uci |-> info.pv[1],
                     white_cp |-> ScoreOf(Pov(info.score, WHITE), HABIT_MATE_SCORE)]>>
                  \o rest

\* What eval_cache.get can return for a position: a miss, or what an
\* earlier job stored for it.
CachedLists(board) ==
    {None} \cup ({infos_to_moves(infos) : infos \in MultiAnswers(board)} \ {<< >>})

\* _cp_pov, lines 461-465, and the same expression at lines 262 and 270.
habit_cp_pov(score, player_color) ==
    ScoreOf(Pov(score, player_color), HABIT_MATE_SCORE)

\* white_cp if player_color == chess.WHITE else -white_cp (lines 222, 228, 322).
FromWhite(white_cp, player_color) ==
    IF player_color = WHITE THEN white_cp ELSE -white_cp

NoCur == [best_move |-> "", best_cp |-> 0, multipv_evals |-> << >>]

InitHabits ==
    /\ hpc = "idle"
    /\ hin = [color |-> "white", fetched |-> FALSE,
              player_color |-> WHITE, min_games |-> 5,
              min_eval_gap |-> MIN_EVAL_GAP,
              max_positions |-> 50, engine_threads |-> None,
              eval_cache |-> FALSE, all_positions |-> << >>,
              sorted_fens |-> << >>]
    /\ hi = 0
    /\ hm = 0
    /\ hcur = NoCur
    /\ heng = 0
    /\ hresults = << >>
    /\ hfailed = FALSE
    /\ hputs = {}
    /\ hlog = << >>

\* analyze_habits, lines 60-185: the arguments are bound, the cache is
\* scanned for the rows of the backend named after username, color and
\* speeds and, if there is none, the games are downloaded and the cache is
\* scanned again; the rows are filtered and sorted; results is empty and
\* eng is None.
HabitsStart ==
    /\ hpc = "idle"
    /\ phase = "config"
    /\ \E input \in HabitInputs :
          hin' = [color |-> input.color,
                  fetched |-> input.fetched,
                  player_color |-> player_color_of(input.color),
                  min_games |-> input.min_games,
                  min_eval_gap |-> input.min_eval_gap,
                  max_positions |-> input.max_positions,
                  engine_threads |-> input.engine_threads,
                  eval_cache |-> input.eval_cache,
                  all_positions |-> input.all_positions,
                  sorted_fens |-> sorted_fens(input.all_positions, input.min_games,
                                              input.max_positions)]
    /\ hpc' = "position"
    /\ hi' = 1
    /\ hlog' = << >>
    /\ UNCHANGED <<hm, hcur, heng, hresults, hfailed, hputs, sessions, notHabits>>

\* eng = Engine(engine_path, threads=engine_threads) when eng is None
\* (lines 240-243 and 323-326).  Engine.__init__ (engine.py:48-52) starts
\* the process and then compares threads with 1: with threads None the
\* comparison raises after the process was started, and eng stays None.
LazyEngine(started) ==
    IF heng # 0
    THEN [ok |-> TRUE, eng |-> heng, sessions |-> sessions]
    ELSE IF ~started
    THEN [ok |-> FALSE, eng |-> 0, sessions |-> sessions]
    ELSE IF hin.engine_threads = None
    THEN [ok |-> FALSE, eng |-> 0, sessions |-> Opened(Owner("habits", 0))]
    ELSE [ok |-> TRUE, eng |-> Len(sessions) + 1,
          sessions |-> Opened(Owner("habits", 0))]

\* The dictionary multipv_evals as a list of (uci, cp) pairs; a later line
\* for the same move overwrites an earlier one.
HasEval(evals, uci) == \E i \in 1..Len(evals) : evals[i].uci = uci
EvalOf(evals, uci) ==
    LET last == CHOOSE i \in 1..Len(evals) :
                  /\ evals[i].uci = uci
                  /\ \A j \in (i+1)..Len(evals) : evals[j].uci # uci
    IN  evals[last].cp

Position == hin.sorted_fens[hi]

\* eval_cache.get(fen, depth, multipv) if eval_cache else None (lines 209
\* and 311): the call, if there is a cache, and what it returned: None or
\* a list, of which the log keeps the first move.
Looked(board, multipv, returned) ==
    IF hin.eval_cache
    THEN <<[op |-> "get", board |-> board, multipv |-> multipv,
            returned |-> IF returned = None THEN None
                         ELSE Some(returned[1].uci)]>>
    ELSE << >>

\* Engine(...), eng.analyse_multipv(board, ...), eng.analyse_single(board, ...).
Called(op, board) ==
    <<[op |-> op, board |-> board, multipv |-> 0, returned |-> None]>>

\* The engine calls of one else branch: the engine is started if eng is
\* None, and the analysis is run if that did not raise.
EngineCalls(e, op, board) ==
    (IF e.sessions # sessions THEN Called("open", board) ELSE << >>)
    \o (IF e.ok THEN Called(op, board) ELSE << >>)

\* multipv_k, line 206.
multipv_k(qualifying) ==
    LET n == Len(qualifying) + 1
        m == IF n > 5 THEN n ELSE 5
    IN  IF m < 20 THEN m ELSE 20

\* Lines 211-218: the entry is used if its first move is legal here.
NeverUsable(cached, board) == FALSE

Usable(cached, board) ==
    cached # None /\ cached[1].uci \in LegalMoves(board)

\* The loop is left for the finally clause, normally or with an exception.
Leave(failed) ==
    /\ hpc' = "finally"
    /\ hfailed' = failed

\* continue: on to the next position.
NextPosition ==
    /\ hpc' = "position"
    /\ hi' = hi + 1

\* One round of the loop up to the inner loop, lines 188-284.
HabitsPosition ==
    /\ hpc = "position"
    /\ IF hi > Len(hin.sorted_fens)
       THEN /\ Leave(FALSE)
            /\ UNCHANGED <<hi, hm, hcur, heng, hputs, hlog, sessions>>
       ELSE IF ~Position.valid \/ Turn(Position.board) # hin.player_color
       THEN /\ NextPosition
            /\ UNCHANGED <<hm, hcur, heng, hfailed, hputs, hlog, sessions>>
       ELSE \E cached \in (IF hin.eval_cache THEN CachedLists(Position.board)
                           ELSE {None}) :
              IF Usable(cached, Position.board)
              THEN \* lines 220-231: served from the cache
                   /\ hlog' = hlog \o Looked(Position.board,
                                              multipv_k(Position.qualifying), cached)
                   /\ hcur' = [best_move |-> cached[1].uci,
                               best_cp |-> FromWhite(cached[1].white_cp,
                                                     hin.player_color),
                               multipv_evals |->
                                   [i \in 1..Len(cached) |->
                                       [uci |-> cached[i].uci,
                                        cp |-> FromWhite(cached[i].white_cp,
                                                         hin.player_color)]]]
                   /\ hm' = 1
                   /\ hpc' = "moves"
                   /\ UNCHANGED <<hi, heng, hfailed, hputs, sessions>>
              ELSE \* lines 238-276: a miss or a stale entry
                   \E started \in BOOLEAN :
                     LET e == LazyEngine(started) IN
                     /\ sessions' = e.sessions
                     /\ heng' = e.eng
                     /\ hlog' = hlog
                                 \o Looked(Position.board, multipv_k(Position.qualifying),
                                           cached)
                                 \o EngineCalls(e, "multipv", Position.board)
                     /\ IF ~e.ok
                        THEN /\ Leave(TRUE)
                             /\ UNCHANGED <<hi, hm, hcur, hputs>>
                        ELSE \E infos \in MultiAnswers(Position.board) \cup {<<EngineError>>} :
                               IF infos = <<EngineError>>
                               THEN /\ Leave(TRUE)
                                    /\ UNCHANGED <<hi, hm, hcur, hputs>>
                               ELSE IF \/ infos = << >>
                                       \/ infos[1].pv = << >>
                                       \/ infos[1].pv[1] \notin LegalMoves(Position.board)
                               THEN /\ NextPosition
                                    /\ UNCHANGED <<hm, hcur, hfailed, hputs>>
                               ELSE LET withPv == SelectSeq(infos, LAMBDA info : info.pv # << >>) IN
                                    /\ hcur' = [best_move |-> infos[1].pv[1],
                                                best_cp |-> habit_cp_pov(infos[1].score,
                                                                         hin.player_color),
                                                multipv_evals |->
                                                    [i \in 1..Len(withPv) |->
                                                        [uci |-> withPv[i].pv[1],
                                                         cp |-> habit_cp_pov(withPv[i].score,
                                                                             hin.player_color)]]]
                                    /\ hputs' = IF hin.eval_cache
                                                THEN hputs \cup {<<Fen(Position.board),
                                                                   infos_to_moves(infos)>>}
                                                ELSE hputs
                                    /\ hm' = 1
                                    /\ hpc' = "moves"
                                    /\ UNCHANGED <<hi, hfailed>>
    /\ UNCHANGED <<hin, hresults, notHabits>>

\* models.py, HabitInaccuracy (the fields the detector computes).
ScoredByTotal(pos, move, best_move, best_cp, player_cp, path) ==
    [fen |-> Fen(pos.board), total_games |-> pos.total,
     player_move_uci |-> move.uci, player_move_games |-> move.games,
     best_move_uci |-> best_move, eval_cp |-> best_cp,
     player_eval_cp |-> player_cp, eval_gap_cp |-> best_cp - player_cp,
     score100 |-> pos.total * (best_cp - player_cp), path |-> path]

HabitInaccuracy(pos, move, best_move, best_cp, player_cp, path) ==
    [fen |-> Fen(pos.board), total_games |-> pos.total,
     player_move_uci |-> move.uci, player_move_games |-> move.games,
     best_move_uci |-> best_move, eval_cp |-> best_cp,
     player_eval_cp |-> player_cp, eval_gap_cp |-> best_cp - player_cp,
     score100 |-> move.games * (best_cp - player_cp), path |-> path]

\* if eval_gap < min_eval_gap: continue (line 344).
AnyGap(eval_gap) == TRUE

WideGap(eval_gap) == ~(eval_gap < hin.min_eval_gap)

\* The rest of one round of the inner loop, lines 338-364.
Assess(move, player_cp, path) ==
    IF WideGap(hcur.best_cp - player_cp)
    THEN hresults' = Append(hresults,
                            HabitInaccuracy(Position, move, hcur.best_move,
                                            hcur.best_cp, player_cp, path))
    ELSE UNCHANGED hresults

\* One round of the inner loop over qualifying_moves, lines 287-364.
HabitsMove ==
    /\ hpc = "moves"
    /\ IF hm > Len(Position.qualifying)
       THEN /\ NextPosition
            /\ UNCHANGED <<hm, heng, hresults, hfailed, hputs, hlog, sessions>>
       ELSE LET move == Position.qualifying[hm]
                after == Push(Position.board, move.uci)
            IN
            IF \/ ~IsUci(move.uci)
               \/ move.uci \notin LegalMoves(Position.board)
               \/ move.uci = hcur.best_move
            THEN /\ hm' = hm + 1
                 /\ UNCHANGED <<hpc, hi, heng, hresults, hfailed, hputs, hlog, sessions>>
            ELSE IF HasEval(hcur.multipv_evals, move.uci)
            THEN /\ Assess(move, EvalOf(hcur.multipv_evals, move.uci), "multipv")
                 /\ hm' = hm + 1
                 /\ UNCHANGED <<hpc, hi, heng, hfailed, hputs, hlog, sessions>>
            ELSE \E after_cached \in (IF hin.eval_cache THEN CachedLists(after)
                                      ELSE {None}) :
                   IF after_cached # None
                   THEN /\ Assess(move, FromWhite(after_cached[1].white_cp,
                                                  hin.player_color), "cache")
                        /\ hlog' = hlog \o Looked(after, 1, after_cached)
                        /\ hm' = hm + 1
                        /\ UNCHANGED <<hpc, hi, heng, hfailed, hputs, sessions>>
                   ELSE \E started \in BOOLEAN :
                          LET e == LazyEngine(started) IN
                          /\ sessions' = e.sessions
                          /\ heng' = e.eng
                          /\ hlog' = hlog \o Looked(after, 1, after_cached)
                                          \o EngineCalls(e, "single", after)
                          /\ IF ~e.ok
                             THEN /\ Leave(TRUE)
                                  /\ UNCHANGED <<hi, hm, hresults, hputs>>
                             ELSE \E info_after \in SingleAnswers(after) \cup {EngineError} :
                                    IF info_after = EngineError
                                    THEN /\ Leave(TRUE)
                                         /\ UNCHANGED <<hi, hm, hresults, hputs>>
                                    ELSE /\ Assess(move,
                                                   habit_cp_pov(info_after.score,
                                                                hin.player_color),
                                                   "single")
                                         /\ hputs' = IF hin.eval_cache
                                                     THEN hputs \cup
                                                          {<<Fen(after),
                                                             infos_to_moves(<<info_after>>)>>}
                                                     ELSE hputs
                                         /\ hm' = hm + 1
                                         /\ UNCHANGED <<hpc, hi, hfailed>>
    /\ UNCHANGED <<hin, hcur, notHabits>>

\* finally: if eng is not None: eng.__exit__(None, None, None), lines 376-378.
HabitsFinally ==
    /\ hpc = "finally"
    /\ sessions' = IF heng # 0 THEN Closed(heng) ELSE sessions
    /\ hpc' = IF hfailed THEN "raised" ELSE "sort"
    /\ UNCHANGED <<hin, hi, hm, hcur, heng, hresults, hfailed, hputs, hlog, notHabits>>

\* results.sort(key=lambda h: -h.score): the score is games * gap / 100.
SortedByScore(seq) ==
    LET rank(i) == 1 + Cardinality({j \in 1..Len(seq) :
                          \/ seq[j].score100 > seq[i].score100
                          \/ seq[j].score100 = seq[i].score100 /\ j < i})
    IN  [r \in 1..Len(seq) |-> seq[CHOOSE i \in 1..Len(seq) : rank(i) = r]]

\* results.sort(...); results = results[:max_positions]; return results
\* (lines 392-398).
HabitsReturn ==
    /\ hpc = "sort"
    /\ hresults' = Prefix(SortedByScore(hresults), hin.max_positions)
    /\ hpc' = "returned"
    /\ UNCHANGED <<hin, hi, hm, hcur, heng, hfailed, hputs, hlog, sessions, notHabits>>

NextHabits ==
    \/ HabitsStart
    \/ HabitsPosition
    \/ HabitsMove
    \/ HabitsFinally
    \/ HabitsReturn

(***************************************************************************)
(* Part 6.  The explorer clients (explorer.py: LichessExplorer;            *)
(* repertoire.py: PlayerExplorer) and the position cache (cache.py)        *)
(***************************************************************************)

\* max_retries of _fetch (explorer.py:70, repertoire.py:123).
MAX_RETRIES == 5

\* _MIN_REQUEST_INTERVAL (repertoire.py:39), in tenths of a second.
MIN_REQUEST_INTERVAL == 5

\* How many get_data calls a behaviour makes.
MaxCalls == 2

\* 2 ** attempt
RECURSIVE Pow2(_)
Pow2(n) == IF n = 0 THEN 1 ELSE 2 * Pow2(n - 1)

\* The two clients and the backend each files its responses under
\* (explorer.py:29, repertoire.py:71).
Clients == {"masters", "player"}
BackendOf(client) ==
    IF client = "masters" THEN "lichess_masters" ELSE "lichess_player_p_white_rapid"

FetchFens == {Fen(StartBoard), Fen(Push(StartBoard, "a"))}

\* The JSON bodies the server can send (as _lichess_response of
\* tests/test_repertoire.py builds them).
RawMove(uci, white, draws, black) ==
    [uci |-> uci, white |-> white, draws |-> draws, black |-> black]
Bodies ==
    {[white |-> 0, draws |-> 0, black |-> 0, moves |-> << >>],
     [white |-> 3, draws |-> 1, black |-> 2, moves |-> <<RawMove("a", 2, 1, 2)>>]}

\* _parse (explorer.py:90-108, repertoire.py:164-182): the totals and the
\* moves of a body as ExplorerData.
parse(data) ==
    [none |-> FALSE,
     total |-> data.white + data.draws + data.black,
     moves |-> [i \in 1..Len(data.moves) |->
                   [uci |-> data.moves[i].uci,
                    total |-> data.moves[i].white + data.moves[i].draws
                              + data.moves[i].black]]]

\* The payload column: json.dumps(data) is the text of a JSON object, and
\* json.loads gives the object back; any other text fails to decode.
EmptyBody == [white |-> 0, draws |-> 0, black |-> 0, moves |-> << >>]
BodyText(data) == [kind |-> "object", body |-> data]
GarbledText == [kind |-> "garbage", body |-> EmptyBody]

\* PRIMARY KEY (fen, backend), cache.py:40.
FenKey(fen, backend) == <<fen, "">>

RowKey(fen, backend) == <<fen, backend>>

\* Cache.get (cache.py:45-52): the row is looked up and its payload decoded
\* with json.loads, outside any try; a JSONDecodeError leaves get.
cache_miss(fen, backend) == [raised |-> FALSE, value |-> None]

cache_get(fen, backend) ==
    IF RowKey(fen, backend) \notin DOMAIN xcache
    THEN [raised |-> FALSE, value |-> None]
    ELSE IF xcache[RowKey(fen, backend)].kind = "object"
    THEN [raised |-> FALSE, value |-> Some(xcache[RowKey(fen, backend)].body)]
    ELSE [raised |-> TRUE, value |-> None]

\* Cache.set (cache.py:54-64).
cache_keep(fen, backend, data) == xcache

cache_set(fen, backend, data) ==
    WithEntry(xcache, RowKey(fen, backend), BodyText(data))

NoCall ==
    [pc |-> "idle", client |-> "masters", fen |-> Fen(StartBoard),
     local_only |-> FALSE, attempt |-> 0, requests |-> 0, statuses |-> << >>,
     waits |-> << >>, spacing |-> 0, waiting |-> FALSE, raw |-> None,
     ret |-> None, before |-> << >>, gaps |-> << >>]

InitFetch ==
    /\ xcache = << >>
    /\ xcall = NoCall
    /\ xcalls = 0
    /\ xsince = MIN_REQUEST_INTERVAL
    /\ xreal = MIN_REQUEST_INTERVAL

\* The cache file the clients can find on disk when they start: empty, or
\* with one row whose payload is not JSON.
StoredCaches ==
    {<< >>} \cup
    {WithEntry(<< >>, <<Fen(StartBoard), BackendOf(client)>>, GarbledText) :
        client \in Clients}

InitStored ==
    /\ xcache \in StoredCaches
    /\ xcall = NoCall
    /\ xcalls = 0
    /\ xsince = MIN_REQUEST_INTERVAL
    /\ xreal = MIN_REQUEST_INTERVAL

\* The time since the player client's last request, after sleeping or
\* idling for tenths more; beyond the minimum interval it no longer matters.
Later(since, tenths) ==
    IF since + tenths < MIN_REQUEST_INTERVAL THEN since + tenths
    ELSE MIN_REQUEST_INTERVAL

\* get_data up to the first request (explorer.py:53-60, repertoire.py:83-103
\* and 124-127): the cache lookup, the offline answer of the player client,
\* and on the way to the network the player client's minimum interval.
GetData(client, fen, local_only) ==
    /\ xcall.pc \in {"idle", "returned", "raised"}
    /\ xcalls < MaxCalls
    /\ client = "masters" => ~local_only
    /\ xcalls' = xcalls + 1
    /\ LET got == cache_get(fen, BackendOf(client))
           cached == got.value
           call == [NoCall EXCEPT !.client = client, !.fen = fen,
                                  !.local_only = local_only, !.before = xcache]
       IN  IF got.raised
           THEN /\ xcall' = [call EXCEPT !.pc = "raised"]
                /\ UNCHANGED <<xsince, xreal>>
           ELSE IF cached # None
           THEN /\ xcall' = [call EXCEPT !.pc = "returned",
                                         !.ret = Some(parse(cached[1]))]
                /\ UNCHANGED <<xsince, xreal>>
           ELSE IF local_only
           THEN /\ xcall' = [call EXCEPT !.pc = "returned"]
                /\ UNCHANGED <<xsince, xreal>>
           ELSE IF client = "player" /\ xsince < MIN_REQUEST_INTERVAL
           THEN /\ xcall' = [call EXCEPT !.pc = "request",
                                         !.spacing = MIN_REQUEST_INTERVAL - xsince]
                /\ xsince' = MIN_REQUEST_INTERVAL
                /\ xreal' = Later(xreal, MIN_REQUEST_INTERVAL - xsince)
           ELSE /\ xcall' = [call EXCEPT !.pc = "request"]
                /\ UNCHANGED <<xsince, xreal>>
    /\ UNCHANGED <<xcache, notFetch>>

\* One round of the loop of _fetch (explorer.py:72-88, repertoire.py:139-156):
\* the request and what follows from its outcome.
Request ==
    /\ xcall.pc = "request"
    /\ \E status \in {"200", "429", "500", "error"}, body \in Bodies :
         LET attempt == xcall.attempt
             sent == [xcall EXCEPT !.requests = @ + 1,
                                   !.statuses = Append(@, status),
                                   !.waiting = FALSE,
                                   !.gaps = IF xcall.client = "player"
                                            THEN Append(@, xreal) ELSE @]
             answered == IF xcall.client = "player" /\ status # "error"
                         THEN 0 ELSE xsince
             issued == IF xcall.client = "player" THEN 0 ELSE xreal
             slept == [sent EXCEPT !.waits = Append(@, Pow2(attempt)),
                                   !.waiting = TRUE]
             next(call) == IF attempt + 1 < MAX_RETRIES
                           THEN [call EXCEPT !.attempt = attempt + 1]
                           ELSE [call EXCEPT !.attempt = attempt + 1,
                                             !.pc = "returned"]
         IN  CASE status = "200" ->
                    /\ xcall' = [sent EXCEPT !.raw = Some(body), !.pc = "store"]
                    /\ xsince' = answered
                    /\ xreal' = issued
               [] status = "429" ->
                    /\ xcall' = next(slept)
                    /\ xsince' = Later(answered, 10 * Pow2(attempt))
                    /\ xreal' = Later(issued, 10 * Pow2(attempt))
               [] status = "500" ->
                    /\ xcall' = [sent EXCEPT !.pc = "returned"]
                    /\ xsince' = answered
                    /\ xreal' = issued
               [] status = "error" ->
                    IF attempt < MAX_RETRIES - 1
                    THEN /\ xcall' = next(slept)
                         /\ xsince' = Later(answered, 10 * Pow2(attempt))
                         /\ xreal' = Later(issued, 10 * Pow2(attempt))
                    ELSE /\ xcall' = next(sent)
                         /\ xsince' = answered
                         /\ xreal' = issued
    /\ UNCHANGED <<xcache, xcalls, notFetch>>

\* get_data after a successful fetch (explorer.py:63-64,
\* repertoire.py:105-106): the response is stored, then parsed and returned.
Store ==
    /\ xcall.pc = "store"
    /\ xcache' = cache_set(xcall.fen, BackendOf(xcall.client), xcall.raw[1])
    /\ xcall' = [xcall EXCEPT !.pc = "returned", !.ret = Some(parse(xcall.raw[1]))]
    /\ UNCHANGED <<xcalls, xsince, xreal, notFetch>>

\* Time passes between two calls.
Pause ==
    /\ xcall.pc \in {"returned", "raised"}
    /\ xreal < MIN_REQUEST_INTERVAL
    /\ \E tenths \in {2, MIN_REQUEST_INTERVAL} :
          /\ xsince' = Later(xsince, tenths)
          /\ xreal' = Later(xreal, tenths)
    /\ UNCHANGED <<xcache, xcall, xcalls, notFetch>>

NextFetch ==
    \/ \E client \in Clients, fen \in FetchFens, local_only \in BOOLEAN :
           GetData(client, fen, local_only)
    \/ Request
    \/ Store
    \/ Pause


(***************************************************************************)
(* Part 7.  The position cache used directly (cache.py: Cache.set,         *)
(* Cache.get) and the storing of a player's book (fetcher.py: _store_book) *)
(***************************************************************************)

\* How many set and get calls a behaviour makes.
MaxOps == 3

\* The backend of the player's book (fetcher.py:402-403) and another one.
PlayerBackend == BackendOf("player")
OtherBackend == BackendOf("masters")

BookFens == {Fen(StartBoard), Fen(Push(Push(StartBoard, "a"), "x"))}

\* One entry of payload["moves"] and a payload, in the explorer's format.
PayloadMove(uci, white, draws, black, rating) ==
    [uci |-> uci, white |-> white, draws |-> draws, black |-> black,
     averageRating |-> rating]
Payload(white, draws, black, moves) ==
    [white |-> white, draws |-> draws, black |-> black, moves |-> moves]

\* One item of pos["moves"] of _build_book (lines 276-280), and a pos.
BookMove(uci, white, draws, black) ==
    [uci |-> uci, white |-> white, draws |-> draws, black |-> black]

Games(m) == m.white + m.draws + m.black

\* sorted(items, key=lambda kv: -(white + draws + black)): stable, the
\* most played move first (lines 340-343, 387-390).
SortedByGames(seq) ==
    LET rank(i) == 1 + Cardinality({j \in 1..Len(seq) :
                          \/ Games(seq[j]) > Games(seq[i])
                          \/ Games(seq[j]) = Games(seq[i]) /\ j < i})
    IN  [r \in 1..Len(seq) |-> seq[CHOOSE i \in 1..Len(seq) : rank(i) = r]]

\* The list comprehension of lines 331-344 and 379-391.
AsPayloadMoves(items) ==
    LET sorted == SortedByGames(items)
    IN  [i \in 1..Len(sorted) |->
            PayloadMove(sorted[i].uci, sorted[i].white, sorted[i].draws,
                        sorted[i].black, 0)]

\* _to_payload, lines 329-350.
to_payload(pos) ==
    Payload(pos.white, pos.draws, pos.black, AsPayloadMoves(pos.moves))

\* moves_map as the list of its items, in the order of insertion.
IndexOf(map, uci) ==
    IF \E i \in 1..Len(map) : map[i].uci = uci
    THEN CHOOSE i \in 1..Len(map) : map[i].uci = uci
    ELSE 0

\* Lines 359-364: moves_map[m["uci"]] = {...} for the existing moves.
RECURSIVE FromExisting(_, _)
FromExisting(map, moves) ==
    IF moves = << >> THEN map
    ELSE LET m == Head(moves)
             item == BookMove(m.uci, m.white, m.draws, m.black)
             i == IndexOf(map, m.uci)
         IN  FromExisting(IF i = 0 THEN Append(map, item)
                          ELSE [map EXCEPT ![i] = item],
                          Tail(moves))

\* Lines 365-375: the new moves are added to the entry of their uci, or
\* entered.
RECURSIVE AddNew(_, _)
AddNew(map, moves) ==
    IF moves = << >> THEN map
    ELSE LET m == Head(moves)
             i == IndexOf(map, m.uci)
         IN  AddNew(IF i = 0
                    THEN Append(map, BookMove(m.uci, m.white, m.draws, m.black))
                    ELSE [map EXCEPT ![i] =
                             BookMove(m.uci, @.white + m.white,
                                      @.draws + m.draws, @.black + m.black)],
                    Tail(moves))

\* _merge_payloads, lines 353-394.
new_payload(existing, new) == new

merge_payloads(existing, new) ==
    Payload(existing.white + new.white,
            existing.draws + new.draws,
            existing.black + new.black,
            AsPayloadMoves(AddNew(FromExisting(<< >>, existing.moves), new.moves)))

\* What set is called with in the direct calls.
SetPayloads ==
    {Payload(1, 0, 0, <<PayloadMove("a", 1, 0, 0, 0)>>),
     Payload(0, 2, 0, <<PayloadMove("b", 0, 2, 0, 0)>>)}

\* The rows a cache file can hold when the book is stored: none, or rows
\* of the player's backend for both positions (one written by an earlier
\* _store_book, one by the player client from a response of the server)
\* and a row of another backend for the first position.
StoredRows ==
    [k \in {<<Fen(StartBoard), PlayerBackend>>,
            <<Fen(StartBoard), OtherBackend>>,
            <<Fen(Push(Push(StartBoard, "a"), "x")), PlayerBackend>>} |->
        IF k = <<Fen(StartBoard), PlayerBackend>>
        THEN BodyText(Payload(2, 1, 0, <<PayloadMove("a", 2, 0, 0, 0),
                                         PayloadMove("b", 0, 1, 0, 0)>>))
        ELSE IF k = <<Fen(StartBoard), OtherBackend>>
        THEN BodyText(Payload(5, 5, 5, <<PayloadMove("a", 5, 5, 5, 2400)>>))
        ELSE BodyText(Payload(1, 0, 1, <<PayloadMove("b", 1, 0, 1, 1500)>>))]

OneRow ==
    [k \in {<<Fen(StartBoard), PlayerBackend>>} |->
        BodyText(Payload(0, 0, 1, <<PayloadMove("a", 0, 0, 1, 0)>>))]

BookCaches == {<< >>, OneRow, StoredRows}

\* The books _build_book can hand over: per position the results of the
\* games that reached it and, per move, of the games in which it was played.
BookEntry(board, white, draws, black, moves) ==
    [fen |-> Fen(board),
     pos |-> [white |-> white, draws |-> draws, black |-> black, moves |-> moves]]

Books ==
    {<<BookEntry(StartBoard, 1, 0, 1,
                 <<BookMove("b", 1, 0, 0), BookMove("a", 0, 0, 1)>>)>>,
     <<BookEntry(StartBoard, 0, 1, 0, <<BookMove("b", 0, 1, 0)>>)>>,
     <<BookEntry(Push(Push(StartBoard, "a"), "y"), 1, 0, 0, <<BookMove("b", 1, 0, 0)>>),
       BookEntry(StartBoard, 2, 0, 1,
                 <<BookMove("a", 1, 0, 1), BookMove("b", 1, 0, 0)>>)>>}

\* What the rows of a cache decode to.
Decoded(cache) ==
    [k \in {key \in DOMAIN cache : cache[key].kind = "object"} |-> cache[k].body]

NoOp == [op |-> "none", key |-> RowKey(Fen(StartBoard), PlayerBackend),
         data |-> None, before |-> << >>]

InitBook ==
    /\ xcache \in BookCaches
    /\ xcall = NoCall
    /\ xcalls = 0
    /\ xsince = MIN_REQUEST_INTERVAL
    /\ xreal = MIN_REQUEST_INTERVAL
    /\ kop = NoOp
    /\ klatest = Decoded(xcache)
    /\ kops = 0
    /\ kpc = "idle"
    /\ kbook = << >>
    /\ kmerge = FALSE
    /\ ki = 0
    /\ kbefore = << >>

\* The other parts leave these variables as they are at the start.
InitNoBook ==
    /\ kop = NoOp
    /\ klatest = << >>
    /\ kops = 0
    /\ kpc = "idle"
    /\ kbook = << >>
    /\ kmerge = FALSE
    /\ ki = 0
    /\ kbefore = << >>

\* cache.set(fen, backend, data), cache.py:54-64.
CacheSet(fen, backend, data) ==
    /\ kpc = "idle"
    /\ kops < MaxOps
    /\ kops' = kops + 1
    /\ xcache' = cache_set(fen, backend, data)
    /\ klatest' = WithEntry(klatest, <<fen, backend>>, data)
    /\ kop' = [op |-> "set", key |-> <<fen, backend>>, data |-> Some(data),
               before |-> xcache]
    /\ UNCHANGED <<kpc, kbook, kmerge, ki, kbefore, notBook>>

\* cache.get(fen, backend), cache.py:45-52.
CacheGet(fen, backend) ==
    /\ kpc \in {"idle", "done"}
    /\ kops < MaxOps
    /\ kops' = kops + 1
    /\ kop' = [op |-> "get", key |-> <<fen, backend>>,
               data |-> cache_get(fen, backend).value, before |-> xcache]
    /\ UNCHANGED <<xcache, klatest, kpc, kbook, kmerge, ki, kbefore, notBook>>

\* _store_book(book, cache, backend, merge) is called (lines 310-320):
\* merge is `since_ts is not None` (line 127) or False (line 449).
StoreBookCall(book, merge) ==
    /\ kpc = "idle"
    /\ kpc' = "storing"
    /\ kbook' = book
    /\ kmerge' = merge
    /\ ki' = 1
    /\ kbefore' = xcache
    /\ UNCHANGED <<xcache, kop, klatest, kops, notBook>>

\* One round of the loop of _store_book, lines 321-327.
StoreBookEntry ==
    /\ kpc = "storing"
    /\ IF ki > Len(kbook)
       THEN /\ kpc' = "done"
            /\ UNCHANGED <<xcache, klatest, ki, kop>>
       ELSE LET fen == kbook[ki].fen
                payload == to_payload(kbook[ki].pos)
                got == cache_get(fen, PlayerBackend)
                existing == IF kmerge THEN got.value ELSE None
                stored == IF existing # None
                          THEN merge_payloads(existing[1], payload)
                          ELSE payload
            IN  IF kmerge /\ got.raised
                THEN /\ kpc' = "raised"
                     /\ UNCHANGED <<xcache, klatest, ki, kop>>
                ELSE /\ xcache' = cache_set(fen, PlayerBackend, stored)
                     /\ klatest' = WithEntry(klatest, <<fen, PlayerBackend>>, stored)
                     /\ kop' = [op |-> "set", key |-> <<fen, PlayerBackend>>,
                                data |-> Some(stored), before |-> xcache]
                     /\ ki' = ki + 1
                     /\ UNCHANGED kpc
    /\ UNCHANGED <<kops, kbook, kmerge, kbefore, notBook>>

NextBook ==
    \/ \E fen \in BookFens, backend \in {PlayerBackend, OtherBackend},
          data \in SetPayloads : CacheSet(fen, backend, data)
    \/ \E fen \in BookFens, backend \in {PlayerBackend, OtherBackend} :
          CacheGet(fen, backend)
    \/ \E book \in Books, merge \in BOOLEAN : StoreBookCall(book, merge)
    \/ StoreBookEntry

(***************************************************************************)
(* Part 8.  The global job queue (web/jobs.py: JobQueue), with the calls   *)
(* of the registry that change what it reads: update_status,               *)
(* mark_cancelled and delete.  Each step is one statement that is atomic   *)
(* in the code: an operation of the semaphore or a block under a lock.     *)
(***************************************************************************)

MAX_CONCURRENT == 4

\* How many jobs are submitted, how many calls of enqueue may be in progress
\* at once, how many threads may be in their finally block at once, and how
\* many jobs are cancelled.
MaxJobs == 8
MaxCallers == 1
MaxFinishing == 1
MaxCancelled == 1

JobIds == 1 .. MaxJobs

HEAVY == {"search", "habits", "strategise", "repertoire"}

\* job.command: the first job submitted is a light one, the others heavy.
Command(j) == IF j = 1 THEN "fetch" ELSE "search"

\* JobQueue.__init__, and a registry without jobs.
InitQueue ==
    /\ qsem = MAX_CONCURRENT
    /\ qwaiting = << >>
    /\ qstatus = [j \in JobIds |-> "none"]
    /\ qreg = {}
    /\ qepc = [j \in JobIds |-> "idle"]
    /\ qwpc = [j \in JobIds |-> "none"]
    /\ qnext = [j \in JobIds |-> 0]
    /\ qlaunched = {}
    /\ qremoved = {}

\* The calls of enqueue that have not returned.
Callers == {j \in JobIds : qepc[j] \in {"append", "queued"}}

\* registry.create(command, ...) and the call enqueue(job, registry) up to
\* the semaphore: a light job is launched at once; a heavy one is started
\* if acquire(blocking=False) got a slot, and goes on to the wait list if not.
\* _start sets job.status and starts the thread _wrapped, which calls
\* _launch_fn and then waits for the status to change.
EnqueueCall(j) ==
    /\ qstatus[j] = "none"
    /\ \A i \in JobIds : i < j => qstatus[i] # "none"
    /\ Cardinality(Callers) < MaxCallers
    /\ qreg' = qreg \cup {j}
    /\ IF Command(j) \notin HEAVY
       THEN /\ qstatus' = [qstatus EXCEPT ![j] = "running"]
            /\ qlaunched' = qlaunched \cup {j}
            /\ qepc' = [qepc EXCEPT ![j] = "end"]
            /\ UNCHANGED <<qsem, qwpc>>
       ELSE IF qsem > 0
       THEN /\ qsem' = qsem - 1
            /\ qstatus' = [qstatus EXCEPT ![j] = "running"]
            /\ qwpc' = [qwpc EXCEPT ![j] = "wait"]
            /\ qlaunched' = qlaunched \cup {j}
            /\ qepc' = [qepc EXCEPT ![j] = "end"]
       ELSE /\ qstatus' = [qstatus EXCEPT ![j] = "running"]
            /\ qepc' = [qepc EXCEPT ![j] = "append"]
            /\ UNCHANGED <<qsem, qwpc, qlaunched>>
    /\ UNCHANGED <<qwaiting, qnext, qremoved>>
    /\ UNCHANGED notQueue

\* enqueue, no slot: with self._lock: self._waiting.append(job.id).
EnqueueAppend(j) ==
    /\ qepc[j] = "append"
    /\ qwaiting' = Append(qwaiting, j)
    /\ qepc' = [qepc EXCEPT ![j] = "queued"]
    /\ UNCHANGED <<qsem, qstatus, qreg, qwpc, qnext, qlaunched, qremoved>>
    /\ UNCHANGED notQueue

\* enqueue, no slot: with registry._lock: job.status = "queued".
EnqueueQueued(j) ==
    /\ qepc[j] = "queued"
    /\ qstatus' = [qstatus EXCEPT ![j] = "queued"]
    /\ qepc' = [qepc EXCEPT ![j] = "end"]
    /\ UNCHANGED <<qsem, qwaiting, qreg, qwpc, qnext, qlaunched, qremoved>>
    /\ UNCHANGED notQueue

\* The threads that are in the finally block of _wrapped.
Finishing == {j \in JobIds : qwpc[j] \in {"promote", "popped", "acquire"}}

\* _wrapped: the loop ends when job.status is no longer "running", and the
\* finally block releases the slot.
WrappedRelease(j) ==
    /\ qwpc[j] = "wait"
    /\ qstatus[j] # "running"
    /\ Cardinality(Finishing) < MaxFinishing
    /\ qsem' = qsem + 1
    /\ qwpc' = [qwpc EXCEPT ![j] = "promote"]
    /\ UNCHANGED <<qwaiting, qstatus, qreg, qepc, qnext, qlaunched, qremoved>>
    /\ UNCHANGED notQueue

\* _promote_next: under self._lock, return if nothing waits, else pop(0).
PromotePop(j) ==
    /\ qwpc[j] = "promote"
    /\ IF qwaiting = << >>
       THEN /\ qwpc' = [qwpc EXCEPT ![j] = "end"]
            /\ UNCHANGED <<qwaiting, qnext>>
       ELSE /\ qnext' = [qnext EXCEPT ![j] = Head(qwaiting)]
            /\ qwaiting' = Tail(qwaiting)
            /\ qwpc' = [qwpc EXCEPT ![j] = "popped"]
    /\ UNCHANGED <<qsem, qstatus, qreg, qepc, qlaunched, qremoved>>
    /\ UNCHANGED notQueue

\* _promote_next: the job is looked up; for a deleted or cancelled one the
\* semaphore is released and _promote_next called again.
PromoteLookup(j) ==
    /\ qwpc[j] = "popped"
    /\ IF qnext[j] \notin qreg \/ qstatus[qnext[j]] = "cancelled"
       THEN /\ qsem' = qsem + 1
            /\ qwpc' = [qwpc EXCEPT ![j] = "promote"]
            /\ qnext' = [qnext EXCEPT ![j] = 0]
       ELSE /\ qwpc' = [qwpc EXCEPT ![j] = "acquire"]
            /\ UNCHANGED <<qsem, qnext>>
    /\ UNCHANGED <<qwaiting, qstatus, qreg, qepc, qlaunched, qremoved>>
    /\ UNCHANGED notQueue

\* _promote_next: if self._sem.acquire(blocking=False): self._start(job);
\* nothing is done when no slot is free.
PromoteAcquire(j) ==
    /\ qwpc[j] = "acquire"
    /\ IF qsem > 0
       THEN /\ qsem' = qsem - 1
            /\ qstatus' = [qstatus EXCEPT ![qnext[j]] = "running"]
            /\ qwpc' = [qwpc EXCEPT ![j] = "end", ![qnext[j]] = "wait"]
            /\ qlaunched' = qlaunched \cup {qnext[j]}
       ELSE /\ qwpc' = [qwpc EXCEPT ![j] = "end"]
            /\ UNCHANGED <<qsem, qstatus, qlaunched>>
    /\ qnext' = [qnext EXCEPT ![j] = 0]
    /\ UNCHANGED <<qwaiting, qreg, qepc, qremoved>>
    /\ UNCHANGED notQueue

\* JobQueue.remove(job_id), called for a cancelled or deleted job that is
\* on the wait list.
Remove(j) ==
    /\ \E k \in 1 .. Len(qwaiting) : qwaiting[k] = j
    /\ j \notin qreg \/ qstatus[j] = "cancelled"
    /\ qwaiting' = SelectSeq(qwaiting, LAMBDA i : i # j)
    /\ qremoved' = qremoved \cup {j}
    /\ UNCHANGED <<qsem, qstatus, qreg, qepc, qwpc, qnext, qlaunched>>
    /\ UNCHANGED notQueue

\* registry.update_status(job_id, "done"), called when the process that
\* _launch_fn started for a heavy job has ended.  The processes of the jobs
\* that run end in the order of the job ids.
UpdateStatus(j) ==
    /\ qwpc[j] = "wait"
    /\ j \in qreg
    /\ \A i \in JobIds : i < j /\ qwpc[i] = "wait" => qstatus[i] # "running"
    /\ qstatus[j] \in {"running", "queued"}
    /\ qstatus' = [qstatus EXCEPT ![j] = "done"]
    /\ UNCHANGED <<qsem, qwaiting, qreg, qepc, qwpc, qnext, qlaunched, qremoved>>
    /\ UNCHANGED notQueue

\* registry.mark_cancelled(job_id), of a job that was not launched.
MarkCancelled(j) ==
    /\ j \in qreg
    /\ j \notin qlaunched
    /\ Cardinality({i \in JobIds : qstatus[i] = "cancelled"}) < MaxCancelled
    /\ qstatus[j] \in {"running", "queued"}
    /\ qstatus' = [qstatus EXCEPT ![j] = "cancelled"]
    /\ UNCHANGED <<qsem, qwaiting, qreg, qepc, qwpc, qnext, qlaunched, qremoved>>
    /\ UNCHANGED notQueue

\* registry.delete(job_id), of a cancelled job that was not launched.
Delete(j) ==
    /\ j \in qreg
    /\ j \notin qlaunched
    /\ qstatus[j] = "cancelled"
    /\ qreg' = qreg \ {j}
    /\ UNCHANGED <<qsem, qwaiting, qstatus, qepc, qwpc, qnext, qlaunched, qremoved>>
    /\ UNCHANGED notQueue

\* The steps of the threads that are inside the queue for job j.
QueueThread(j) ==
    \/ EnqueueAppend(j)
    \/ EnqueueQueued(j)
    \/ WrappedRelease(j)
    \/ PromotePop(j)
    \/ PromoteLookup(j)
    \/ PromoteAcquire(j)

NextQueue ==
    \/ \E j \in JobIds : EnqueueCall(j)
    \/ \E j \in JobIds : QueueThread(j)
    \/ \E j \in JobIds : Remove(j)
    \/ \E j \in JobIds : UpdateStatus(j)
    \/ \E j \in JobIds : MarkCancelled(j)
    \/ \E j \in JobIds : Delete(j)

NextCache ==
    \/ \E t \in Threads, fen \in CacheFens, depth \in PutDepths, moves \in PutMoveLists :
           PutCall(t, fen, depth, moves)
    \/ \E t \in Threads : PutCheck(t)
    \/ \E t \in Threads : PutAcquire(t)
    \/ \E t \in Threads : PutExecute(t)
    \/ \E t \in Threads : PutCommit(t)
    \/ \E t \in Threads : PutRelease(t)

vars == <<cacheVars, walkVars, evalVars, habitVars, sessions, fetchVars, bookVars,
          queueVars>>

Init ==
    /\ InitCache
    /\ InitWalk
    /\ InitEval
    /\ InitHabits
    /\ InitFetch
    /\ InitNoBook
    /\ InitQueue
    /\ sessions = << >>

SpecCache == Init /\ [][NextCache]_vars

SpecWalk == Init /\ [][NextWalk]_vars

SpecRepertoireWalk == Init /\ [][NextRepertoireWalk]_vars

SpecFaultyWalk == Init /\ [][NextFaultyWalk]_vars

SpecEval == Init /\ [][NextEval]_vars

SpecHabits == Init /\ [][NextHabits]_vars

\* The start of the clients on a cache file left by earlier runs.
InitOnDisk ==
    /\ InitCache
    /\ InitWalk
    /\ InitEval
    /\ InitHabits
    /\ InitStored
    /\ InitNoBook
    /\ InitQueue
    /\ sessions = << >>

SpecFetch == InitOnDisk /\ [][NextFetch]_vars

\* The start of the direct users of the position cache.
InitWithBook ==
    /\ InitCache
    /\ InitWalk
    /\ InitEval
    /\ InitHabits
    /\ InitBook
    /\ InitQueue
    /\ sessions = << >>

SpecBook == InitWithBook /\ [][NextBook]_vars

SpecQueue == Init /\ [][NextQueue]_vars

\* The threads of the queue are scheduled: a thread that can take its next
\* step takes it.  Nothing is assumed about the processes, the callers of
\* enqueue and remove, or the registry.
FairQueue == \A j \in JobIds : WF_vars(QueueThread(j))

SpecQueueFair == Init /\ [][NextQueue]_vars /\ FairQueue

(***************************************************************************)
(* Claims about EvalCache                                                  *)
(***************************************************************************)

\* The step at which the put of thread t takes effect: the early return of
\* an empty list, the commit, or the swallowed sqlite3.Error.
PutEffect(t) ==
    \/ pc[t] = "called" /\ pc'[t] = "idle"
    \/ pc[t] = "commit" /\ pc'[t] = "release"
    \/ pc[t] = "execute" /\ pc'[t] = "release"

Idle == \A t \in Threads : pc[t] = "idle"

DepthsOf(pairs) == {p[1] : p \in pairs}
MaxOf(S) == CHOOSE m \in S : \A x \in S : x <= m
NonEmptyPuts(f) == {p \in supplied[f] : p[2] # << >>}

\* C1 as stated: at a position whose stored entry has depth D, a put with
\* depth d < D leaves the stored depth and move list unchanged, and a put
\* with depth d > D replaces them with the incoming depth and move list.
C1_StepRuleAsStated ==
    [][\A t \in Threads :
         (PutEffect(t) /\ arg[t].fen \in DOMAIN db) =>
            LET f == arg[t].fen
                d == arg[t].depth
                D == db[f].depth
            IN  /\ d < D => /\ db'[f].depth = D
                            /\ db'[f].moves_json = db[f].moves_json
                /\ d > D => /\ db'[f].depth = d
                            /\ Decodes(db'[f].moves_json)
                            /\ Loads(db'[f].moves_json) = arg[t].moves]_vars

\* C1 amended: a put with depth d < D leaves the stored depth and move list
\* unchanged; a put with depth d > D and a non-empty move list replaces the
\* stored depth and move list with the incoming ones; a put with an empty
\* move list changes nothing, whatever its depth.
C1_StepRule ==
    [][\A t \in Threads :
         (PutEffect(t) /\ arg[t].fen \in DOMAIN db) =>
            LET f == arg[t].fen
                d == arg[t].depth
                D == db[f].depth
            IN  /\ d < D => /\ db'[f].depth = D
                            /\ db'[f].moves_json = db[f].moves_json
                /\ (d > D /\ arg[t].moves # << >>) =>
                            /\ db'[f].depth = d
                            /\ Decodes(db'[f].moves_json)
                            /\ Loads(db'[f].moves_json) = arg[t].moves
                /\ arg[t].moves = << >> => db' = db]_vars

\* C1 witness: on one position a depth-16 put was executed after a depth-20
\* one (the row keeps depth 20 and the short list but carries a later
\* timestamp), and a depth-24 put of the long list is about to replace it.
C1_Witness ==
    \E t \in Threads :
        /\ pc[t] = "commit"
        /\ arg[t].depth = 24 /\ Len(arg[t].moves) = MAX_MULTIPV
        /\ arg[t].fen \in DOMAIN db
        /\ db[arg[t].fen].depth = 20 /\ db[arg[t].fen].ts = 2
        /\ <<16, MoveListOf("y", MAX_MULTIPV)>> \in supplied[arg[t].fen]
        /\ Loads(db[arg[t].fen].moves_json) = MoveListOf("x", 1)
        /\ wal[1].row.depth = 24

\* The stored depth of a position never decreases, and a row never vanishes.
DepthMonotone ==
    \A f \in DOMAIN db : f \in DOMAIN db' /\ db'[f].depth >= db[f].depth

\* Once every put so far has returned, the row of f holds the depth and the
\* move list of a write with the greatest depth written so far.
HoldsDeepest(f) ==
    NonEmptyPuts(f) # {} =>
        /\ f \in DOMAIN db
        /\ db[f].depth = MaxOf(DepthsOf(NonEmptyPuts(f)))
        /\ Decodes(db[f].moves_json)
        /\ \E p \in NonEmptyPuts(f) :
               p[1] = db[f].depth /\ p[2] = Loads(db[f].moves_json)

LockHeld ==
    /\ \A t \in Threads :
          pc[t] \in {"execute", "commit", "release"} => write_lock = t
    /\ wal # << >> => /\ write_lock = wal[1].conn
                       /\ pc[wal[1].conn] = "commit"

\* The stored pair is the pair of one single write.
PairOfOneWrite ==
    \A f \in DOMAIN db :
        /\ Decodes(db[f].moves_json)
        /\ <<db[f].depth, Loads(db[f].moves_json)>> \in NonEmptyPuts(f)

\* The compare-and-keep of the put of t is one step on the table: from its
\* statement to its commit no other step changes the table, and its commit
\* installs the merge of its arguments with the row that is stored then.
Indivisible ==
    \A t \in Threads :
        /\ (pc[t] = "commit" /\ pc'[t] = "commit") => db' = db
        /\ (pc[t] = "commit" /\ pc'[t] = "release") =>
              db' = WithRow(db, arg[t].fen,
                        InsertOrUpdate(db, arg[t].fen, arg[t].depth,
                                       Dumps(arg[t].moves), clock))
        /\ (pc[t] = "execute" /\ pc'[t] # "execute") => pc'[t] = "commit"

\* C3: the depth-monotonic merge is atomic with respect to concurrent
\* writers of one key: under every interleaving each put's compare-and-keep
\* takes effect as one indivisible step, the final stored depth is the
\* maximum depth written, and the stored (depth, move list) pair is the pair
\* supplied by one single write.
C3_AtomicMerge ==
    /\ [][Indivisible]_vars
    /\ [](LockHeld /\ PairOfOneWrite)
    /\ [](Idle => \A f \in CacheFens :
                    NonEmptyPuts(f) # {} =>
                        /\ f \in DOMAIN db
                        /\ db[f].depth = MaxOf(DepthsOf(NonEmptyPuts(f))))

\* C3 witness: two threads are inside put on the same position at once, one
\* holding the lock with its statement executed, the other waiting for the
\* lock with a deeper write.
C3_Witness ==
    \E t, u \in Threads :
        /\ pc[t] = "commit" /\ pc[u] = "lock"
        /\ arg[t].fen = arg[u].fen
        /\ arg[t].fen \in DOMAIN db
        /\ arg[u].depth > arg[t].depth
        /\ arg[t].depth < db[arg[t].fen].depth

(***************************************************************************)
(* Claims about the theory walk                                            *)
(***************************************************************************)

\* The position a FEN names.
BoardOf(fen) == [w |-> fen[1], b |-> fen[2]]

\* The walk is at an iteration of the loop over the engine's lines, on a
\* line that carries a move.
AtOurMove ==
    /\ phase = "walk"
    /\ stack # << >>
    /\ Top.pc = "our"
    /\ Top.i <= Len(Top.infos)
    /\ Top.infos[Top.i].pv # << >>

\* The move under consideration, the database's game count of a move (0
\* when the database does not list it) and the quick evaluation of the line
\* from the researched side's point of view.
ConsideredMove == Top.infos[Top.i].pv[1]
DatabaseGames(m) == world.count[m]
QuickEval ==
    LET s == Top.infos[Top.i].score
    IN  IF s.turn = config.side THEN s.relative.v ELSE -s.relative.v

\* This step appends the candidate (Top.board, m) to pending.
Enqueues(m) ==
    /\ Len(pending') = Len(pending) + 1
    /\ SubSeq(pending', 1, Len(pending)) = pending
    /\ pending'[Len(pending')].board = Top.board
    /\ pending'[Len(pending')].move = m

\* This step calls _walk on the position after m.
RecursesInto(m) ==
    /\ Len(stack') = Len(stack) + 1
    /\ stack'[Len(stack')].pc = "call"
    /\ stack'[Len(stack')].board = Push(Top.board, m)

PendingKeys == {<<Fen(pending[i].board), pending[i].move>> : i \in 1..Len(pending)}

\* C4: at a position where it is the researched side's turn, a considered
\* move is enqueued as a candidate only if its game count in the database
\* is at most novelty_threshold, and is recursed into as known theory only
\* if its count is above novelty_threshold; no move at one position is both
\* enqueued and recursed into.
C4_NoveltySplit ==
    /\ [][AtOurMove =>
            /\ Enqueues(ConsideredMove) =>
                  DatabaseGames(ConsideredMove) <= config.novelty_threshold
            /\ RecursesInto(ConsideredMove) =>
                  DatabaseGames(ConsideredMove) > config.novelty_threshold
            /\ ~(Enqueues(ConsideredMove) /\ RecursesInto(ConsideredMove))]_vars
    /\ [][(phase = "walk" /\ pending' # pending) =>
            (AtOurMove /\ Enqueues(ConsideredMove))]_vars
    /\ [](\A i \in 1..Len(pending) :
            /\ DatabaseGames(pending[i].move) <= config.novelty_threshold
            /\ Turn(pending[i].board) = config.side)
    /\ [](\A r \in recursed :
            Turn(BoardOf(r[1])) = config.side =>
                DatabaseGames(r[2]) > config.novelty_threshold)
    /\ [](PendingKeys \cap recursed = {})

\* C4 witness: at one position of the researched side, one move (count 1,
\* equal to the threshold) was enqueued and another (count 3) recursed into.
C4_Witness ==
    /\ phase = "walked"
    /\ \E i \in 1..Len(pending) : \E r \in recursed :
          /\ r[1] = Fen(pending[i].board)
          /\ r[2] # pending[i].move
          /\ DatabaseGames(pending[i].move) = config.novelty_threshold
          /\ DatabaseGames(r[2]) = config.novelty_threshold + 2

\* C5: a considered move whose count is at most novelty_threshold is
\* enqueued if and only if its quick evaluation, from the researched side's
\* point of view, is at least min_eval_cp (otherwise it is dropped and never
\* reaches pending, nor is it walked); the candidate's post_novelty_games is
\* the database's count of the move, 0 when the database does not list it.
C5_QuickFloor ==
    /\ [][(AtOurMove /\ DatabaseGames(ConsideredMove) <= config.novelty_threshold) =>
            /\ Enqueues(ConsideredMove) <=> QuickEval >= config.min_eval_cp
            /\ ~Enqueues(ConsideredMove) => pending' = pending
            /\ Enqueues(ConsideredMove) =>
                  /\ pending'[Len(pending')].post_novelty_games =
                         DatabaseGames(ConsideredMove)
                  /\ pending'[Len(pending')].quick_eval_cp = QuickEval
            /\ ~RecursesInto(ConsideredMove)]_vars
    /\ [](\A i \in 1..Len(pending) :
            /\ pending[i].quick_eval_cp >= config.min_eval_cp
            /\ pending[i].post_novelty_games = DatabaseGames(pending[i].move))

\* C5 witness: at the root the first line's move is absent from the
\* database and evaluates at the floor (enqueued with 0 games), the second
\* has one game and evaluates below the floor (dropped).
C5_Witness ==
    /\ phase = "walk"
    /\ Len(stack) = 1
    /\ Top.pc = "our"
    /\ Top.i = 3
    /\ Len(pending) = 1
    /\ pending[1].move = "a"
    /\ pending[1].post_novelty_games = 0
    /\ pending[1].quick_eval_cp = config.min_eval_cp
    /\ world.count["b"] = 1
    /\ world.score[2] = Cp(-40)

\* The database has nothing, or too little, on the position: it returns no
\* data, or data whose total is below min_book_games.
OutsideBook(board) ==
    LET data == ExplorerAnswer(world, board, config.min_book_games)
    IN  data.none \/ data.total < config.min_book_games

\* The walk is about to run a _walk call on a position it has not visited,
\* within both ceilings.
AtFreshCall ==
    /\ phase = "walk"
    /\ stack # << >>
    /\ Top.pc = "call"
    /\ Fen(Top.board) \notin visited
    /\ positions_visited < config.max_positions
    /\ Len(Top.book_moves) < config.max_book_plies

\* C6: when the database returns no data for a position, or data whose
\* total is below min_book_games, the branch ends at that position: the
\* call returns at once, no candidate is enqueued from it, the engine is
\* not asked about it and no child of it is walked.
C6_OutOfBookStops ==
    /\ [][(AtFreshCall /\ OutsideBook(Top.board)) =>
            /\ stack' = Pop
            /\ Fen(Top.board) \in visited'
            /\ CountOf(dbQueries', Fen(Top.board)) = 1
            /\ UNCHANGED <<pending, engineCalls, recursed>>]_vars
    /\ [](\A fen \in visited :
            OutsideBook(BoardOf(fen)) =>
                /\ CountOf(engineCalls, fen) = 0
                /\ \A i \in 1..Len(pending) : Fen(pending[i].board) # fen
                /\ \A r \in recursed : r[1] # fen
                /\ \A k \in 1..Len(stack) :
                       Fen(stack[k].board) = fen => stack[k].pc = "call")

\* C6 witness: the walk is over; a position two moves from the root was
\* visited, the database listed moves for it (with more games than the
\* threshold) under a total one short of min_book_games, and nothing came
\* of it.
C6_Witness ==
    /\ phase = "walked"
    /\ world.gap = "thin"
    /\ \A m \in AllMoves : world.count[m] > config.novelty_threshold
    /\ \E fen \in visited :
          /\ Ply(BoardOf(fen)) = 2
          /\ OutsideBook(BoardOf(fen))
          /\ CountOf(dbQueries, fen) = 1
          /\ CountOf(engineCalls, fen) = 0

NoDuplicates(seq) == \A i, j \in 1..Len(seq) : seq[i] = seq[j] => i = j

RECURSIVE SumOf(_, _)
SumOf(f, S) ==
    IF S = {} THEN 0
    ELSE LET k == CHOOSE x \in S : TRUE IN f[k] + SumOf(f, S \ {k})

\* The number of _walk calls made so far, and the most children one call can
\* spawn.
TotalCalls == SumOf(walkCalls, DOMAIN walkCalls)
Fanout ==
    IF config.engine_candidates > config.opponent_responses
    THEN config.engine_candidates ELSE config.opponent_responses

\* C8: positions_visited never exceeds max_positions and no position at
\* book depth max_book_plies or more is processed (visited, looked up,
\* analysed or a source of candidates); the two ceilings bound the walk: the
\* recursion is never deeper than max_book_plies + 1 calls and the run makes
\* at most 1 + Fanout * max_positions calls, so it terminates.
C8_Ceilings ==
    /\ positions_visited <= config.max_positions
    /\ Cardinality(visited) <= config.max_positions
    /\ \A fen \in visited \cup DOMAIN dbQueries \cup DOMAIN engineCalls :
           Ply(BoardOf(fen)) < config.max_book_plies
    /\ \A i \in 1..Len(pending) :
           Len(pending[i].book_moves) < config.max_book_plies
    /\ \A k \in 1..Len(stack) :
           /\ Len(stack[k].book_moves) = k - 1
           /\ stack[k].pc # "call" => Len(stack[k].book_moves) < config.max_book_plies
    /\ Len(stack) <= config.max_book_plies + 1
    /\ TotalCalls <= 1 + Fanout * positions_visited
    /\ TotalCalls <= 1 + Fanout * config.max_positions

\* C8 witness: the walk is over with positions_visited at max_positions;
\* one call was turned away by the depth ceiling and another, on a position
\* within the depth ceiling, by the position ceiling.
C8_Witness ==
    /\ phase = "walked"
    /\ positions_visited = config.max_positions
    /\ \E fen \in DOMAIN walkCalls \ visited :
           Ply(BoardOf(fen)) = config.max_book_plies
    /\ \E fen \in DOMAIN walkCalls \ visited :
           Ply(BoardOf(fen)) < config.max_book_plies

PlayedGames(data, m) ==
    IF \E i \in 1..Len(data.moves) : data.moves[i].uci = m
    THEN data.moves[CHOOSE i \in 1..Len(data.moves) : data.moves[i].uci = m].total
    ELSE 0

\* The player filter allows recursion into m: no filter is configured, the
\* player has no data or too few games at the position, or has played m at
\* least min_player_games times.
FilterAllows(m) ==
    \/ config.player_name = ""
    \/ world.player.none
    \/ world.player.total < config.min_player_games
    \/ PlayedGames(world.player, m) >= config.min_player_games

\* C12: at a position where it is the researched side's turn, a move the
\* engine suggests whose database count is above novelty_threshold is
\* recursed into if and only if the player filter allows it (no filter, no
\* data or fewer than min_player_games games of the player at the position,
\* or at least min_player_games games of the player with this move); it is
\* never enqueued as a candidate, so a move the player has not played often
\* enough is neither recursed into nor enqueued.
C12_PlayerFilter ==
    /\ [][(AtOurMove /\ DatabaseGames(ConsideredMove) > config.novelty_threshold) =>
            /\ RecursesInto(ConsideredMove) <=> FilterAllows(ConsideredMove)
            /\ pending' = pending]_vars
    /\ [](\A r \in recursed :
            Turn(BoardOf(r[1])) = config.side => FilterAllows(r[2]))

\* C12 witness: with a filter and enough games of the player at the root,
\* the walk has recursed into the book move the player plays and has
\* neither recursed into nor enqueued the book move they do not play.
C12_Witness ==
    /\ phase = "walked"
    /\ config.player_name # ""
    /\ ~world.player.none
    /\ world.player.total >= config.min_player_games
    /\ \E m, n \in LegalMoves(StartBoard) :
          /\ Turn(StartBoard) = config.side
          /\ DatabaseGames(m) > config.novelty_threshold
          /\ DatabaseGames(n) > config.novelty_threshold
          /\ <<Fen(StartBoard), m>> \in recursed
          /\ <<Fen(StartBoard), n>> \notin recursed \cup PendingKeys

\* list is the n most-played moves of data, most played first: as many as
\* n and the data allow, each an entry of the data, none twice, in
\* descending order of games, and no entry left out has more games than one
\* taken.
IsTopOf(list, data, n) ==
    LET entries == {data.moves[i] : i \in 1..Len(data.moves)}
        taken == {list[i] : i \in 1..Len(list)}
    IN  /\ Len(list) = (IF n < Len(data.moves) THEN n ELSE Len(data.moves))
        /\ taken \subseteq entries
        /\ Cardinality(taken) = Len(list)
        /\ \A i, j \in 1..Len(list) : i < j => list[i].total >= list[j].total
        /\ \A e \in entries \ taken : \A i \in 1..Len(list) : list[i].total >= e.total

\* An opponent filter is configured and the opponent has at least
\* min_opponent_games games at the position.
OpponentKnown ==
    /\ config.opponent_name # ""
    /\ ~world.opponent.none
    /\ world.opponent.total >= config.min_opponent_games

\* The calls of _walk that stand at the loop over the opponent's moves.
OppFrames == {k \in 1..Len(stack) : stack[k].pc = "opp"}

\* The moves recursed into at a position.
FollowedAt(fen) == {r[2] : r \in {q \in recursed : q[1] = fen}}

\* The walk follows, at each position of the opponent, the moves of the list
\* it chose there and nothing else, at most opponent_responses of them.
FollowsItsList ==
    /\ \A k \in OppFrames :
          /\ Len(stack[k].move_list) <= config.opponent_responses
          /\ FollowedAt(Fen(stack[k].board)) \subseteq
                 {stack[k].move_list[i].uci : i \in 1..Len(stack[k].move_list)}
    /\ \A r \in recursed :
          Turn(BoardOf(r[1])) # config.side =>
              Cardinality(FollowedAt(r[1])) <= config.opponent_responses

\* C13 as stated: at a position where it is the opponent's turn the walk
\* follows at most opponent_responses moves: the opponent's own most-played
\* moves whenever an opponent filter is configured and the opponent has at
\* least min_opponent_games games at the position, and otherwise the
\* database's most-played moves.
C13_OpponentMovesAsStated ==
    /\ FollowsItsList
    /\ \A k \in OppFrames :
          IF OpponentKnown
          THEN IsTopOf(stack[k].move_list, world.opponent, config.opponent_responses)
          ELSE IsTopOf(stack[k].move_list, stack[k].data, config.opponent_responses)

\* C13, amended: at a position where it is the opponent's turn the walk
\* follows at most opponent_responses moves: the opponent's own most-played
\* moves (by their personal game frequency) when an opponent filter is
\* configured, the opponent has at least min_opponent_games games at the
\* position and their data lists at least one move there, and otherwise the
\* database's most-played moves; the moves of one position all come from
\* one source.
C13_OpponentMoves ==
    /\ FollowsItsList
    /\ \A k \in OppFrames :
          IF OpponentKnown /\ world.opponent.moves # << >>
          THEN IsTopOf(stack[k].move_list, world.opponent, config.opponent_responses)
          ELSE IsTopOf(stack[k].move_list, stack[k].data, config.opponent_responses)

\* C13 witness: the opponent's favourite reply to the first move is not the
\* database's, one reply is followed, and the walk has followed the
\* opponent's and not the database's.
C13_Witness ==
    /\ phase = "walked"
    /\ OpponentKnown
    /\ config.opponent_responses = 1
    /\ \E first \in LegalMoves(StartBoard) :
       \E own, other \in LegalMoves(Push(StartBoard, first)) :
          /\ Turn(StartBoard) = config.side
          /\ PlayedGames(world.opponent, own) > PlayedGames(world.opponent, other)
          /\ DatabaseGames(other) > DatabaseGames(own)
          /\ FollowedAt(Fen(Push(StartBoard, first))) = {own}

(***************************************************************************)
(* Claims about the deep evaluation                                        *)
(***************************************************************************)

\* The evaluations of a line at which the engine produced a numeric
\* (centipawn) score, not a mate.
NumericEvals(line) ==
    LET IsNumeric(ev) == ev.mate_white = None IN SelectSeq(line.evals, IsNumeric)

\* The deep mean evaluation of a line, from the researched side's point of
\* view and over the depths with a numeric score, is at least floor; with
\* no such depth the mean is +10000 when some depth has a mate for the
\* researched side, -10000 otherwise.
DeepMeanAtLeast(line, floor) ==
    LET numeric == NumericEvals(line)
        values == [i \in 1..Len(numeric) |->
                      IF config.side = WHITE
                      THEN numeric[i].cp_white[1] ELSE -numeric[i].cp_white[1]]
        mate_for_side ==
            \E i \in 1..Len(line.evals) :
                /\ line.evals[i].mate_white # None
                /\ (line.evals[i].mate_white[1] > 0) = (config.side = WHITE)
    IN  IF numeric # << >>
        THEN SumSeq(values) >= floor * Len(values)
        ELSE (IF mate_for_side THEN MATE_CP ELSE -MATE_CP) >= floor

\* C10 as stated: every NoveltyLine returned by find_novelties has a deep
\* mean evaluation, from the researched side's point of view and averaged
\* over the depths that produced a numeric score, of at least min_eval_cp
\* (a candidate whose deep mean is below the floor is not returned, whatever
\* its quick evaluation).
C10_DeepFloor ==
    \A i \in 1..Len(results) : DeepMeanAtLeast(results[i], config.min_eval_cp)

(***************************************************************************)
(* Claims about the habit detector                                         *)
(***************************************************************************)

\* C11: every HabitInaccuracy that analyze_habits has collected or returned
\* has a gap between the evaluation of the engine's best move and the
\* evaluation of the player's move, both from the player's point of view, of
\* at least min_eval_gap, whichever path produced the evaluation of the
\* player's move: the multi-move analysis, the evaluation cache or the
\* single-position analysis.
C11_GapFloor ==
    \A i \in 1..Len(hresults) :
        /\ hresults[i].eval_gap_cp = hresults[i].eval_cp - hresults[i].player_eval_cp
        /\ hresults[i].eval_gap_cp >= hin.min_eval_gap
        /\ hresults[i].path \in {"multipv", "cache", "single"}

\* analyze_habits has returned an inaccuracy whose player's-move evaluation
\* came from the single-position analysis.
C11_Witness ==
    /\ hpc = "returned"
    /\ \E i \in 1..Len(hresults) : hresults[i].path = "single"

\* The same for the other two paths.
ReturnedFrom(path) ==
    /\ hpc = "returned"
    /\ \E i \in 1..Len(hresults) : hresults[i].path = path

(***************************************************************************)
(* Claims about pruning and the pool                                       *)
(***************************************************************************)

\* The candidate a pending entry or a NoveltyLine is about.
KeyOf(p) == <<p.book_moves, p.move>>
LineKey(line) == <<line.book_moves, line.novelty_move>>

Kept == {pending[i] : i \in 1..Len(pending)}
Discarded == {found[i] : i \in 1..Len(found)} \ Kept

\* The pruning has taken place.
Pruned == phase \in {"pruned", "pool", "returned"} /\ found # << >>

\* C14: the pruner keeps at most max_candidates candidates (all of them when
\* there are no more than that), ordered by quick evaluation descending; the
\* kept ones are candidates the walk found, and no discarded candidate has a
\* strictly higher quick evaluation than a kept one; only kept candidates
\* are deep-evaluated: the pool has one evaluation per kept candidate and
\* every line returned is the line of a kept candidate.
C14_Prune ==
    Pruned =>
        /\ Len(pending) <= config.max_candidates
        /\ Len(pending) = (IF Len(found) < config.max_candidates
                           THEN Len(found) ELSE config.max_candidates)
        /\ Cardinality(Kept) = Len(pending)
        /\ \A k \in Kept : \E i \in 1..Len(found) : found[i] = k
        /\ \A i, j \in 1..Len(pending) :
               i < j => pending[i].quick_eval_cp >= pending[j].quick_eval_cp
        /\ \A d \in Discarded : \A k \in Kept : d.quick_eval_cp <= k.quick_eval_cp
        /\ phase \in {"pool", "returned"} =>
               /\ Len(futures) = Len(pending)
               /\ \A w \in DOMAIN job :
                      job[w].busy => job[w].fut \in 1..Len(pending)
               /\ \A i \in 1..Len(futures) :
                      futures[i].result # None =>
                          LineKey(futures[i].result[1]) = KeyOf(pending[i])
               /\ \A i \in 1..Len(results) :
                      /\ \E k \in Kept : LineKey(results[i]) = KeyOf(k)
                      /\ \A d \in Discarded : LineKey(results[i]) # KeyOf(d)

\* C14 witness: of three candidates found, the two with the best quick
\* evaluation were kept and evaluated, the third, found first, was dropped,
\* and find_novelties has returned a line.
C14_Witness ==
    /\ phase = "returned"
    /\ Len(found) = 3
    /\ Len(pending) = 2
    /\ found[1] \in Discarded
    /\ results # << >>

\* The candidates whose own evaluation succeeded and passed the floor: their
\* future completed with a line.
Succeeded == {i \in 1..Len(futures) :
                 futures[i].state = "finished" /\ futures[i].result # None}

\* The evaluation of candidate i fails in this step.
FailsNow(i) == futures[i].state # "raised" /\ futures'[i].state = "raised"

\* C15: in the pool an exception raised while one candidate is evaluated is
\* caught and reported: it leaves find_novelties in the pool, and leaves the
\* evaluations of the sibling candidates and the results collected so far
\* as they are; find_novelties returns only when every evaluation has
\* completed or failed, and then returns, once each, the line of every
\* candidate whose own evaluation succeeded and passed the floor.
C15_Isolation ==
    /\ [][phase = "pool" => phase' \in {"pool", "returned"}]_vars
    /\ [][\A i \in 1..Len(futures) :
            (phase = "pool" /\ FailsNow(i)) =>
                /\ \A j \in 1..Len(futures) : j # i => futures'[j] = futures[j]
                /\ \A w \in DOMAIN job : job[w].fut # i => job'[w] = job[w]
                /\ results' = results]_vars
    /\ []((phase = "returned" /\ found # << >>) =>
            /\ \A i \in 1..Len(futures) :
                   futures[i].state \in {"finished", "raised"}
            /\ \A i \in Succeeded :
                   \E k \in 1..Len(results) : results[k] = futures[i].result[1]
            /\ Len(results) = Cardinality(Succeeded))

\* C15 witness: find_novelties has returned the line of one candidate
\* although the evaluation of another raised.
C15_Witness ==
    /\ phase = "returned"
    /\ results # << >>
    /\ \E i \in 1..Len(futures) : futures[i].state = "raised"

\* The lines of the candidates whose evaluation completed with a line: what
\* the engine answered for each candidate decides them, whichever worker
\* ran the evaluation and whenever it finished.
LinesByCandidate == {futures[i].result[1] : i \in Succeeded}

\* C18: the result does not depend on the order in which the workers
\* finish: the lines returned are, as a set, the lines of the candidates
\* whose evaluation produced one, one line for each such candidate, and the
\* ranking reported is these lines sorted by score descending.
C18_OrderIndependent ==
    /\ (phase \in {"returned", "reported"} /\ found # << >>) =>
          /\ {results[k] : k \in 1..Len(results)} = LinesByCandidate
          /\ Len(results) = Cardinality(Succeeded)
          /\ \A i \in Succeeded :
                 LineKey(futures[i].result[1]) = KeyOf(pending[i])
    /\ phase = "reported" =>
          /\ Len(scored) = Len(results)
          /\ {scored[k].novelty : k \in 1..Len(scored)}
                 = {results[k] : k \in 1..Len(results)}
          /\ \A k \in 1..Len(scored) :
                 scored[k] = score_novelty(scored[k].novelty, config.side)
          /\ \A j, k \in 1..Len(scored) :
                 j < k => scored[j].score >= scored[k].score

\* C18 witness: the candidate submitted second finished first and its
\* line was collected first; the line of the other has the better score and
\* is reported first.
C18_Witness ==
    /\ phase = "reported"
    /\ Len(results) = 2
    /\ LineKey(results[1]) = KeyOf(pending[2])
    /\ LineKey(results[2]) = KeyOf(pending[1])
    /\ scored[1].novelty = results[2]
    /\ scored[1].score > scored[2].score

(***************************************************************************)
(* Claims about engine sessions                                            *)
(***************************************************************************)

\* The pool threads that are inside _evaluate_candidate.
Evaluating == {w \in DOMAIN job : job[w].busy}

OpenSessions == {id \in 1..Len(sessions) : sessions[id].open}

\* C16: at most max_workers candidates are evaluated at once; every
\* evaluation in progress works with an engine session that is running and
\* was started by this evaluation, no two evaluations in progress work with
\* the same session, and the walk's session is no longer running when
\* evaluations are.
C16_OwnSession ==
    /\ Cardinality(Evaluating) <= config.max_workers
    /\ \A w \in Evaluating :
          /\ job[w].eng \in OpenSessions
          /\ sessions[job[w].eng].owner = Owner("eval", job[w].fut)
    /\ \A v, w \in Evaluating : v # w =>
          /\ job[v].eng # job[w].eng
          /\ job[v].fut # job[w].fut
    /\ phase = "pool" =>
          \A id \in OpenSessions : sessions[id].owner.kind = "eval"

\* C16 witness: two candidates are under evaluation at once, each with its
\* own running session.
C16_Witness ==
    /\ phase = "pool"
    /\ Cardinality(Evaluating) = 2
    /\ Cardinality({job[w].eng : w \in Evaluating} \cap OpenSessions) = 2

\* The sessions a scope started that are still running.
OpenOf(kind) == {id \in OpenSessions : sessions[id].owner.kind = kind}

\* The evaluations in progress, by candidate.
InProgress == {job[w].fut : w \in Evaluating}

\* C17 as stated: every engine session that was opened is closed when its
\* scope ends, on every exit path: the walk's session is closed before
\* phase 2 begins, also when the walk raises; the session of a candidate is
\* closed whether its evaluation returns a line, discards the candidate or
\* raises; the habit detector's lazily opened session is closed whether the
\* scan completes or raises; no session is running after find_novelties or
\* analyze_habits has returned or raised.
C17_SessionsClosed ==
    /\ phase \in {"walked", "pruned", "pool", "returned", "raised"} =>
           OpenOf("walk") = {}
    /\ \A id \in OpenOf("eval") : sessions[id].owner.n \in InProgress
    /\ phase \in {"returned", "raised"} => OpenSessions = {}
    /\ hpc \in {"sort", "returned", "raised"} => OpenSessions = {}

(***************************************************************************)
(* Claims about the explorer clients                                       *)
(***************************************************************************)

\* The get_data call has returned after going to the network.
Fetched == xcall.pc = "returned" /\ xcall.requests > 0

\* The call gave up at the attempt cap: it sent max_retries requests and
\* none was answered with success.
GaveUpAtCap == Fetched /\ xcall.requests = MAX_RETRIES /\ xcall.raw = None

\* C19 as stated: one fetch of either client issues at most 5 requests; a
\* 429 response to the request of attempt a is followed by a wait of 2^a
\* seconds and a retry; once the attempt cap is reached the fetch gives up
\* and get_data returns None, without raising and without further waiting
\* or retrying.
C19_BoundedFetch ==
    /\ xcall.requests <= MAX_RETRIES
    /\ \A i \in 1..Len(xcall.waits) : xcall.waits[i] = Pow2(i - 1)
    /\ \A i \in 1..Len(xcall.statuses) :
          xcall.statuses[i] = "429" => Len(xcall.waits) >= i
    /\ Fetched =>
          \A i \in 1..Len(xcall.statuses) :
              xcall.statuses[i] = "429" => i < xcall.requests
    /\ GaveUpAtCap => xcall.ret = None /\ ~xcall.waiting

\* The same without the case of a 429 in answer to the last request.
BoundedFetchUnlessLast429 ==
    (Len(xcall.statuses) = MAX_RETRIES /\ xcall.statuses[MAX_RETRIES] = "429")
    \/ C19_BoundedFetch

\* The cache key of the call, and whether the call obtained a successful
\* response from the network.
CallKey == <<xcall.fen, BackendOf(xcall.client)>>
GotResponse == xcall.raw # None

\* The cache holds data under key and is otherwise as it was before.
WrittenOver(before, key, data) ==
    /\ DOMAIN xcache = DOMAIN before \cup {key}
    /\ xcache[key] = BodyText(data)
    /\ \A k \in DOMAIN before : k # key => xcache[k] = before[k]

\* C20: a get_data call writes to the position cache exactly when it
\* obtained a successful network response: the cache changes only in the
\* step that stores such a response under the call's key, which is the step
\* that hands the data to the caller, so data from the network is never
\* returned before it is stored; a call whose fetch fails (a status other
\* than success, attempts exhausted, network error) leaves the cache as it
\* was and returns None.
C20_WriteOnSuccess ==
    /\ [][xcache' # xcache =>
            /\ xcall.pc = "store"
            /\ GotResponse
            /\ xcall.statuses[Len(xcall.statuses)] = "200"
            /\ xcall'.pc = "returned"]_vars
    /\ [](xcall.ret # None => xcall.pc = "returned")
    /\ [](xcall.pc = "returned" =>
            IF GotResponse
            THEN /\ WrittenOver(xcall.before, CallKey, xcall.raw[1])
                 /\ xcall.ret # None
                 /\ xcall.ret[1].total = xcall.raw[1].white + xcall.raw[1].draws
                                         + xcall.raw[1].black
            ELSE /\ xcache = xcall.before
                 /\ xcall.requests > 0 => xcall.ret = None)

\* C20 witness: a call was answered 429 and then 200; the response is in
\* the cache, where there was none before, and was returned.
C20_Witness ==
    /\ xcall.pc = "returned"
    /\ xcall.statuses = <<"429", "200">>
    /\ CallKey \notin DOMAIN xcall.before
    /\ CallKey \in DOMAIN xcache
    /\ xcall.ret # None

\* The call found a row under its key, and that row's payload decodes.
FoundRow == CallKey \in DOMAIN xcall.before
FoundData == FoundRow /\ xcall.before[CallKey].kind = "object"

\* C21: an explorer sends a request for a position only when the cache has
\* no row for it: a call that finds a row sends none, and when the row
\* decodes returns its data; a get_data call of the player client with
\* local_only sends no request at all, and on a miss returns None at once
\* with the cache as it was.
C21_RequestOnlyOnMiss ==
    /\ xcall.requests > 0 => ~FoundRow /\ ~xcall.local_only
    /\ xcall.pc \in {"request", "store"} => ~FoundRow /\ ~xcall.local_only
    /\ (xcall.pc = "returned" /\ FoundData) =>
          /\ xcall.ret = Some(parse(xcall.before[CallKey].body))
          /\ xcache = xcall.before
    /\ (xcall.local_only /\ xcall.pc # "idle" /\ ~FoundRow) =>
          /\ xcall.pc = "returned"
          /\ xcall.ret = None
          /\ xcache = xcall.before

\* C21 witness: after a first call stored a response, an offline call of
\* the player client for a position without a row has returned None.
C21_Witness ==
    /\ xcalls = 2
    /\ xcall.local_only
    /\ xcall.pc = "returned"
    /\ ~FoundRow
    /\ \E key \in DOMAIN xcache : xcache[key].kind = "object"
    /\ xcall.ret = None

\* C22 as stated: every request the player client sends comes at least
\* 0.5 s after the request it sent before, within one fetch and from one
\* get_data call to the next, also when the earlier request ended in a
\* network exception.
C22_MinInterval ==
    \A i \in 1..Len(xcall.gaps) : xcall.gaps[i] >= MIN_REQUEST_INTERVAL

\* Within one fetch the retries are spaced: only the first request of a call
\* can come early.
SpacedRetries ==
    \A i \in 2..Len(xcall.gaps) : xcall.gaps[i] >= MIN_REQUEST_INTERVAL

\* C25 as stated, for the position cache: a row whose payload does not
\* decode is a miss to get, which never raises: the call that finds it goes
\* on as on a miss (offline it returns None, otherwise it fetches).
C25_CorruptIsMiss ==
    /\ xcall.pc # "raised"
    /\ (FoundRow /\ ~FoundData /\ xcall.local_only) =>
          xcall.pc = "returned" /\ xcall.ret = None

(***************************************************************************)
(* Claims about failures during the walk                                   *)
(***************************************************************************)

\* The faults that make a collaborator fail at a position, and the faults
\* that make it answer with a move that cannot be played.
PositionFaults == {"network", "database", "engine_error"}
MoveFaults == {"engine_illegal", "db_unparseable"}

FailsAt(board) == Ply(board) = world.fault_ply

\* No candidate was enqueued at, and no move followed from, a position
\* where the collaborator failed.
DeadEnd ==
    /\ \A i \in 1..Len(pending) : ~FailsAt(pending[i].board)
    /\ \A r \in recursed : ~FailsAt(BoardOf(r[1]))

\* C23 as stated: the walk never raises because the engine, the network or
\* the database failed at a position; the position is treated as out of
\* book (no candidate from it, no recursion from it) and the walk goes on.
C23_FailureIsOutOfBook ==
    world.fault \in PositionFaults => phase # "raised" /\ DeadEnd

\* The part of it about the network: a position whose requests all fail is
\* out of book, and the walk goes on.
NetworkFailureIsOutOfBook ==
    world.fault = "network" => phase # "raised" /\ DeadEnd

\* A walk went on after a network failure at the positions one move from
\* the root: it finished, having visited more than one of them.
WalkedPastNetworkFailure ==
    /\ world.fault = "network"
    /\ world.fault_ply = 1
    /\ phase = "walked"
    /\ Cardinality({fen \in visited : Ply(BoardOf(fen)) = 1}) > 1

\* Only moves legal in their position were enqueued or followed.
OnlyLegalMoves ==
    /\ \A i \in 1..Len(pending) : pending[i].move \in LegalMoves(pending[i].board)
    /\ \A r \in recursed : r[2] \in LegalMoves(BoardOf(r[1]))

\* C24 as stated: a move of the database or of the engine that is illegal in
\* the position, or whose string does not parse, is skipped without
\* raising: it is neither enqueued nor recursed into, and the walk goes on.
C24_IllegalMoveSkipped ==
    world.fault \in MoveFaults \cup {"none"} => phase # "raised" /\ OnlyLegalMoves

\* The part of it about moves of the database that parse: the database
\* lists every move with games, legal in the position or not, and only the
\* legal ones are followed.
IllegalDatabaseMoveSkipped ==
    world.fault = "none" => phase # "raised" /\ OnlyLegalMoves

(***************************************************************************)
(* Claims about what the habit detector assesses                           *)
(***************************************************************************)

\* C26 as stated: a failure while one position or one move is assessed (an
\* engine error, a move that is illegal or does not parse, a bad cache
\* entry) does not end the run: no exception leaves analyze_habits, which
\* goes on to the other positions and returns the habits found there.
C26_HabitIsolation ==
    hin.engine_threads # None => ~hfailed /\ hpc # "raised"

\* The part of it about moves: a run returned a habit of a position whose
\* list of moves also holds a string that does not parse and an illegal move.
ReturnedPastBadMoves ==
    /\ hpc = "returned"
    /\ \E k \in 1..Len(hresults) :
          /\ hresults[k].fen = Fen(BlackRow.board)
          /\ hresults[k].player_move_uci = "y"

\* The rows of the scan that are positions (not bookkeeping keys).
PositionRows ==
    {row \in {hin.all_positions[i] : i \in 1..Len(hin.all_positions)} : ~row.meta}

\* pos is row, reached often enough, with exactly the moves of row that
\* were played often enough.
QualifiesAs(row, pos) ==
    /\ ~row.meta
    /\ row.valid = pos.valid /\ row.board = pos.board /\ row.total = pos.total
    /\ row.total >= hin.min_games
    /\ \A j \in 1..Len(row.moves) :
          row.moves[j].games >= hin.min_games =>
              \E q \in 1..Len(pos.qualifying) : pos.qualifying[q] = row.moves[j]
    /\ \A q \in 1..Len(pos.qualifying) :
          /\ pos.qualifying[q].games >= hin.min_games
          /\ \E j \in 1..Len(row.moves) : row.moves[j] = pos.qualifying[q]

\* How often the player chose uci at the position fen, by the scan.
GamesWith(fen, uci) ==
    LET row == CHOOSE r \in PositionRows : r.valid /\ Fen(r.board) = fen
        j == CHOOSE k \in 1..Len(row.moves) : row.moves[k].uci = uci
    IN  row.moves[j].games

MateForSide(line) ==
    \E i \in 1..Len(line.evals) :
        /\ line.evals[i].mate_white # None
        /\ (line.evals[i].mate_white[1] > 0) = (config.side = WHITE)

\* The placeholder of a line without a numeric evaluation, in thousandths
\* of a centipawn like the scorer's eval_cp.
MatePlaceholder(line) ==
    IF MateForSide(line) THEN 1000 * MATE_CP ELSE -1000 * MATE_CP

\* C27 as stated: when no depth of a candidate gave a numeric centipawn
\* value (every depth is a mate), the mean the floor and the scorer use is
\* +10000 if some depth has a mate for the researched side and -10000
\* otherwise: such a line is returned only if the placeholder meets the
\* floor, and is scored with the placeholder as its eval_cp.
C27_MateMean ==
    /\ \A i \in 1..Len(results) :
          NumericEvals(results[i]) = << >> =>
              MatePlaceholder(results[i]) >= 1000 * config.min_eval_cp
    /\ \A i \in 1..Len(scored) :
          NumericEvals(scored[i].novelty) = << >> =>
              scored[i].eval_cp = MatePlaceholder(scored[i].novelty)

\* C28 as stated: every EngineEval of a returned NoveltyLine has exactly one
\* of cp_white and mate_white set, never both (the engine always returns a
\* score here, so never neither).
C28_CpXorMate ==
    \A i \in 1..Len(results) :
        \A k \in 1..Len(results[i].evals) :
            (results[i].evals[k].cp_white = None)
                # (results[i].evals[k].mate_white = None)

\* Without mates the two fields are as stated: a line whose depths all gave
\* centipawns has cp_white set and mate_white unset throughout.
CpOnlyWithoutMate ==
    \A i \in 1..Len(results) :
        \A k \in 1..Len(results[i].evals) :
            results[i].evals[k].mate_white = None =>
                results[i].evals[k].cp_white # None


(***************************************************************************)
(* Claims about the order and the size of the habit detector's work        *)
(***************************************************************************)

\* The rows of the scan that qualify: positions reached min_games times
\* with a move chosen min_games times.
QualifyingRows ==
    {row \in PositionRows :
        /\ row.total >= hin.min_games
        /\ \E j \in 1..Len(row.moves) : row.moves[j].games >= hin.min_games}

\* seq is in descending order of key100.
Descending(seq) ==
    \A i \in 1..Len(seq) : \A j \in i..Len(seq) : seq[i].score100 >= seq[j].score100

\* C31: the detector goes through the qualifying positions one after the
\* other in descending order of their total, at most 5 * max_positions of
\* them and then the most frequent ones; the list it returns is in
\* descending order of score, has at most max_positions entries, and these
\* are habits found by the run of which none scores less than a habit
\* that was found and left out.
C31_OrderAndCap ==
    /\ [](/\ Len(hin.sorted_fens) <= 5 * hin.max_positions
          /\ \A i \in 1..Len(hin.sorted_fens) : \A j \in i..Len(hin.sorted_fens) :
                hin.sorted_fens[i].total >= hin.sorted_fens[j].total
          /\ \A row \in QualifyingRows :
                \/ \E k \in 1..Len(hin.sorted_fens) :
                      QualifiesAs(row, hin.sorted_fens[k])
                \/ /\ Len(hin.sorted_fens) = 5 * hin.max_positions
                   /\ \A k \in 1..Len(hin.sorted_fens) :
                         hin.sorted_fens[k].total >= row.total)
    /\ [][hpc # "idle" /\ hi' # hi => hi' = hi + 1 /\ hi <= Len(hin.sorted_fens)]_vars
    /\ [][hpc = "sort" /\ hpc' = "returned" =>
             /\ Descending(hresults')
             /\ Len(hresults') <= hin.max_positions
             /\ \/ Len(hresults') = Len(hresults)
                \/ Len(hresults') = hin.max_positions
             /\ \A k \in 1..Len(hresults') :
                   \E j \in 1..Len(hresults) : hresults[j] = hresults'[k]
             /\ \A j \in 1..Len(hresults) :
                   \/ \E k \in 1..Len(hresults') : hresults'[k] = hresults[j]
                   \/ \A k \in 1..Len(hresults') :
                         hresults'[k].score100 >= hresults[j].score100]_vars

\* C31 witness: with max_positions 1 the run went through five of the six
\* qualifying positions of the scan and not through the least frequent
\* one, found two habits and returned the one that scores more.
C31_Witness ==
    /\ hpc = "returned"
    /\ hin.all_positions = LongScan
    /\ hin.max_positions = 1
    /\ hin.player_color = BLACK
    /\ Cardinality(QualifyingRows) = 6
    /\ Len(hin.sorted_fens) = 5
    /\ hi = 6
    /\ \A i \in 1..Len(hlog) : hlog[i].board # DeepRow.board
    /\ \E i \in 1..Len(hlog) :
          hlog[i].op = "multipv" /\ hlog[i].board = RareRow.board
    /\ Len(hresults) = 1
    /\ hresults[1].fen = Fen(RareRow.board)
    /\ hresults[1].score100 = 160

\* C31, the other side of the cap: with max_positions 50 the same scan is
\* gone through to its least frequent position.
WentThroughAll ==
    /\ hpc = "returned"
    /\ hin.all_positions = LongScan
    /\ hin.max_positions = 50
    /\ Len(hin.sorted_fens) = 6
    /\ \E i \in 1..Len(hlog) :
          hlog[i].op = "multipv" /\ hlog[i].board = DeepRow.board

(***************************************************************************)
(* Claims about the evaluation cache in habit detection                    *)
(***************************************************************************)

\* The calls of the log that are engine analyses of board.
AnalysesOf(op, board) ==
    {i \in 1..Len(hlog) : hlog[i].op = op /\ hlog[i].board = board}

\* Call i was made right after a lookup of its position, with nothing but
\* the start of the engine in between.
LookupBefore(i) ==
    IF i > 1 /\ hlog[i-1].op = "open" THEN i - 2 ELSE i - 1

\* What a lookup returned cannot be used: nothing, or a list whose first
\* move is not a legal move of the position.
Unusable(call) ==
    \/ call.returned = None
    \/ call.returned[1] \notin LegalMoves(call.board)

\* C32: in a run with an evaluation cache, a position gets at most one
\* multi-candidate analysis, and gets it right after the lookup for it
\* returned nothing or an entry that cannot be used; a single analysis of
\* the position after a move is run right after the lookup for that
\* position returned nothing; and the engine is opened only in a run in
\* which a lookup returned nothing or an entry that cannot be used.
C32_CacheBeforeEngine ==
    hin.eval_cache =>
        /\ \A i \in 1..Len(hlog) :
              /\ hlog[i].op = "multipv" =>
                    /\ Cardinality(AnalysesOf("multipv", hlog[i].board)) = 1
                    /\ LookupBefore(i) >= 1
                    /\ hlog[LookupBefore(i)].op = "get"
                    /\ hlog[LookupBefore(i)].board = hlog[i].board
                    /\ hlog[LookupBefore(i)].multipv >= 5
                    /\ Unusable(hlog[LookupBefore(i)])
              /\ hlog[i].op = "single" =>
                    /\ LookupBefore(i) >= 1
                    /\ hlog[LookupBefore(i)].op = "get"
                    /\ hlog[LookupBefore(i)].board = hlog[i].board
                    /\ hlog[LookupBefore(i)].multipv = 1
                    /\ hlog[LookupBefore(i)].returned = None
        /\ (\A i \in 1..Len(hlog) : hlog[i].op = "get" => ~Unusable(hlog[i]))
              => /\ heng = 0
                 /\ \A s \in 1..Len(sessions) : sessions[s].owner.kind # "habits"

\* C32 witness: a run with a cache returned a habit after one position was
\* served from the cache without an analysis of it, the move played there
\* was looked up, missed and analysed alone, and another position missed
\* and was analysed with several candidates.
C32_Witness ==
    /\ hpc = "returned"
    /\ hin.eval_cache
    /\ hresults # << >>
    /\ \E i \in 1..Len(hlog) :
          /\ hlog[i].op = "get" /\ hlog[i].multipv >= 5 /\ ~Unusable(hlog[i])
          /\ AnalysesOf("multipv", hlog[i].board) = {}
    /\ \E i \in 1..Len(hlog) : hlog[i].op = "single"
    /\ \E i \in 1..Len(hlog) : hlog[i].op = "multipv"

\* C32, its last part: a run with a cache found a habit from lookups that
\* all hit, and no engine was started.
ServedFromCacheAlone ==
    /\ hpc = "returned"
    /\ hin.eval_cache
    /\ hresults # << >>
    /\ \E i \in 1..Len(hlog) : hlog[i].op = "get" /\ hlog[i].multipv = 1
    /\ \A i \in 1..Len(hlog) : hlog[i].op = "get"
    /\ \A s \in 1..Len(sessions) : sessions[s].owner.kind # "habits"

\* C32 and entries that cannot be used: a position whose cached best move
\* is not legal there was analysed by the engine.
StaleEntryAnalysed ==
    \E i \in 1..Len(hlog) :
        /\ hlog[i].op = "get"
        /\ hlog[i].returned # None
        /\ AnalysesOf("multipv", hlog[i].board) # {}

(***************************************************************************)
(* Claims about invalid arguments                                          *)
(***************************************************************************)

\* C33 as stated, for analyze_habits: a color that is neither "white" nor
\* "black" is rejected before any cache lookup, network request or engine
\* call: the cache is not scanned, nothing is downloaded, no position is
\* taken up, and the color is not taken for one of the two sides.
C33_InvalidColorRejected ==
    hin.color \notin {"white", "black"} =>
        /\ hpc \in {"idle", "raised"}
        /\ ~hin.fetched
        /\ hlog = << >>
        /\ hresults = << >>

\* What the detector does instead: "red" is taken for Black throughout.
InvalidColorIsBlack ==
    hin.color \notin {"white", "black"} => hin.player_color = BLACK

\* A run with the color "red" returned a habit of a Black position after
\* engine calls.
RedRunReturned ==
    /\ hin.color = "red"
    /\ hpc = "returned"
    /\ hresults # << >>
    /\ hresults[1].fen = Fen(BlackRow.board)
    /\ \E i \in 1..Len(hlog) : hlog[i].op = "multipv"

\* A run with the color "red" downloaded games after an empty scan.
RedRunFetched ==
    /\ hin.color = "red"
    /\ hin.fetched
    /\ hpc = "returned"

(***************************************************************************)
(* Claims about the position cache and the player's book                   *)
(***************************************************************************)

\* What get answers for a pair, as the cache is now.
Answer(key) == cache_get(key[1], key[2])

\* C34: the position cache holds one entry per (fen, backend) pair, the
\* last one written: right after set(fen, backend, data), get of the pair
\* returns data and every other pair, the same fen under another backend
\* and another fen under the same backend included, is as it was before;
\* and whenever get is called it returns the data last written for its
\* pair, or None if nothing was.
C34_LastWriteWins ==
    /\ kop.op = "set" =>
          /\ ~Answer(kop.key).raised
          /\ Answer(kop.key).value = kop.data
          /\ DOMAIN xcache = DOMAIN kop.before \cup {kop.key}
          /\ \A k \in DOMAIN kop.before : k # kop.key => xcache[k] = kop.before[k]
    /\ kop.op = "get" =>
          kop.data = IF kop.key \in DOMAIN klatest THEN Some(klatest[kop.key])
                     ELSE None
    /\ \A fen \in BookFens, backend \in {PlayerBackend, OtherBackend} :
          Answer(<<fen, backend>>).value =
              IF <<fen, backend>> \in DOMAIN klatest
              THEN Some(klatest[<<fen, backend>>]) ELSE None

\* C34 witness: the row of the start position under the player's backend
\* was written over and read back, with the row of the same position under
\* the other backend and the row of the other position under the player's
\* backend as they were.
C34_Witness ==
    /\ kop.op = "get"
    /\ kop.key = <<Fen(StartBoard), PlayerBackend>>
    /\ kop.data # None
    /\ kop.data[1] \in SetPayloads
    /\ DOMAIN xcache = DOMAIN StoredRows
    /\ \A k \in DOMAIN StoredRows : k # kop.key => xcache[k] = StoredRows[k]

\* The counts of a payload as a whole and of one of its moves (zero for a
\* move it does not list).
Counts(white, draws, black) == <<white, draws, black>>
PositionCounts(payload) == Counts(payload.white, payload.draws, payload.black)
CountsOfMove(moves, uci) ==
    LET i == IndexOf(moves, uci)
    IN  IF i = 0 THEN Counts(0, 0, 0)
        ELSE Counts(moves[i].white, moves[i].draws, moves[i].black)
Plus(c, d) == Counts(c[1] + d[1], c[2] + d[2], c[3] + d[3])

\* The key of an entry of the book, and what was cached under it before.
BookKey(entry) == <<entry.fen, PlayerBackend>>
WasCached(entry) == BookKey(entry) \in DOMAIN kbefore
Previous(entry) == kbefore[BookKey(entry)].body

\* C36: when _store_book is done, every position of the book is cached
\* under the player's backend with, in merge mode, the counts cached
\* before plus the counts of the book, for the position and for every
\* move (a move listed on one side only keeps that side's counts) and, in
\* full mode or without an earlier row, the counts of the book alone; no
\* move is listed twice; and every row that is not of a position of the
\* book is as it was.
C36_BookStored ==
    kpc = "done" =>
        /\ \A n \in 1..Len(kbook) :
              LET entry == kbook[n]
                  added == kmerge /\ WasCached(entry)
                  now == Answer(BookKey(entry)).value
              IN  /\ now # None
                  /\ PositionCounts(now[1]) =
                        IF added
                        THEN Plus(PositionCounts(Previous(entry)),
                                  PositionCounts(entry.pos))
                        ELSE PositionCounts(entry.pos)
                  /\ \A uci \in AllMoves :
                        CountsOfMove(now[1].moves, uci) =
                            IF added
                            THEN Plus(CountsOfMove(Previous(entry).moves, uci),
                                      CountsOfMove(entry.pos.moves, uci))
                            ELSE CountsOfMove(entry.pos.moves, uci)
                  /\ \A i, j \in 1..Len(now[1].moves) :
                        now[1].moves[i].uci = now[1].moves[j].uci => i = j
        /\ \A k \in DOMAIN xcache :
              (\A n \in 1..Len(kbook) : BookKey(kbook[n]) # k) =>
                  k \in DOMAIN kbefore /\ xcache[k] = kbefore[k]
        /\ \A k \in DOMAIN kbefore : k \in DOMAIN xcache

\* C36 witness: a book of two positions was merged into a cache that held
\* one of them; its move "a" went from 2 wins to 3 wins and 1 loss, the
\* other position was entered with the book's counts, and the rows of the
\* other backend and of the position outside the book are as they were.
C36_Witness ==
    /\ kpc = "done"
    /\ kmerge
    /\ Len(kbook) = 2
    /\ kbefore = StoredRows
    /\ xcache # kbefore
    /\ CountsOfMove(Answer(<<Fen(StartBoard), PlayerBackend>>).value[1].moves, "a")
          = Counts(3, 0, 1)
    /\ PositionCounts(Answer(<<Fen(StartBoard), PlayerBackend>>).value[1])
          = Counts(4, 1, 1)
    /\ <<kbook[1].fen, PlayerBackend>> \notin DOMAIN kbefore
    /\ PositionCounts(Answer(<<kbook[1].fen, PlayerBackend>>).value[1])
          = Counts(1, 0, 0)

\* C36 in full mode: a book replaced the row of a position that was cached.
ReplacedInFullMode ==
    /\ kpc = "done"
    /\ ~kmerge
    /\ kbefore = StoredRows
    /\ Len(kbook) = 1
    /\ PositionCounts(Answer(<<Fen(StartBoard), PlayerBackend>>).value[1])
          = Counts(0, 1, 0)


(***************************************************************************)
(* Claims about the job queue                                              *)
(***************************************************************************)

\* The heavy jobs that the queue started and that have not finished.
Unfinished ==
    {j \in JobIds : Command(j) \in HEAVY /\ j \in qlaunched /\ qstatus[j] = "running"}

\* C37: the number of heavy jobs started by the queue and not yet finished
\* is never more than MAX_CONCURRENT.
C37_AtMostMaxConcurrent == Cardinality(Unfinished) <= MAX_CONCURRENT

\* A slot was released for a cancelled job that held none: the semaphore
\* stands above the number of slots.
SlotsOverCounted == qsem + Cardinality(Unfinished) > MAX_CONCURRENT

\* Job i is on the wait list, neither cancelled nor deleted.
StillWaiting(i) ==
    /\ \E k \in 1 .. Len(qwaiting) : qwaiting[k] = i
    /\ i \in qreg
    /\ qstatus[i] # "cancelled"

\* C38: no heavy job is started while a heavy job that was enqueued earlier
\* (the calls of enqueue are made in the order of the job ids) is still on
\* the wait list, neither cancelled nor removed.
C38_StartedInFifoOrder ==
    [][\A j \in JobIds :
          (Command(j) \in HEAVY /\ j \notin qlaunched /\ j \in qlaunched')
              => ~ \E i \in JobIds : i < j /\ StillWaiting(i)]_vars

\* C39: if every running job finishes, a job on the wait list is started,
\* unless it is cancelled, deleted or removed.
C39_WaitingJobStarted ==
    <>[](Unfinished = {}) =>
        \A j \in JobIds :
            (\E k \in 1 .. Len(qwaiting) : qwaiting[k] = j)
                ~> (j \in qlaunched \/ qstatus[j] = "cancelled"
                        \/ j \notin qreg \/ j \in qremoved)

\* A thread of the queue holds a job that it took off the wait list, and no
\* slot is free: the job is about to be left unstarted.
PoppedWithoutSlot ==
    \E j \in JobIds :
        /\ qwpc[j] = "acquire"
        /\ qsem = 0
        /\ qstatus[qnext[j]] = "queued"

\* No job is left on the wait list while nothing runs and no thread of the
\* queue is at work.
NoJobStranded ==
    ~ /\ \E j \in JobIds : StillWaiting(j) /\ qepc[j] = "end"
      /\ Unfinished = {}
      /\ \A j \in JobIds : qwpc[j] \in {"none", "end"}
      /\ Callers = {}

(***************************************************************************)
(* Claims about the hits of EvalCache                                      *)
(***************************************************************************)

\* EvalCache.get(fen, depth, multipv) on the committed table: None on a
\* miss, the first multipv stored moves on a hit.
get(table, fen, depth, multipv) ==
    IF fen \notin DOMAIN table THEN None
    ELSE IF table[fen].depth < depth THEN None
    ELSE IF ~Decodes(table[fen].moves_json) THEN None
    ELSE IF Len(Loads(table[fen].moves_json)) < multipv THEN None
    ELSE Some(SubSeq(Loads(table[fen].moves_json), 1, multipv))

\* The numbers of lines asked for: one (the single-move fallback,
\* habits.py:323), five (a position with few qualifying moves,
\* habits.py:207) and MAX_MULTIPV.
GetMultipvs == {1, 5, MAX_MULTIPV}

\* C40: once get(fen, depth, multipv) has found an entry, the same call
\* finds one after every put.
C40_HitsStable ==
    [][\A f \in CacheFens, d \in PutDepths, k \in GetMultipvs :
          get(db, f, d, k) # None => get(db', f, d, k) # None]_vars

\* What does hold: a request for one line that was satisfied stays so.
SingleLineHitsStable ==
    [][\A f \in CacheFens, d \in PutDepths :
          get(db, f, d, 1) # None => get(db', f, d, 1) # None]_vars

\* The put of the claim's second sentence: at the depth of the stored entry,
\* with fewer moves than it holds, about to be committed.
ShorterListAtSameDepth ==
    \E t \in Threads :
        /\ pc[t] = "commit"
        /\ arg[t].fen \in DOMAIN db
        /\ arg[t].depth = db[arg[t].fen].depth
        /\ Len(arg[t].moves) < Len(Loads(db[arg[t].fen].moves_json))
        /\ get(db, arg[t].fen, arg[t].depth, 5) # None

=========================================================================
